---- MODULE Spec2Model ----
(***************************************************************************)
(* PatchOpsIII: the configuration-patching backend (src/src/backend/       *)
(* config.rs).  The game directory is a small filesystem: players/         *)
(* config.ini, its read-only permission bit, d3dcompiler_46.dll and        *)
(* d3dcompiler_46.dll.bak.  Every public function of config.rs is one      *)
(* action; the Result it returns, the log entries it emits and the         *)
(* filesystem it found are recorded until the caller takes the Result.     *)
(*                                                                         *)
(* A text is a sequence of one-character strings, so that str::lines,      *)
(* writeln!, format! and the regular expressions are computed character    *)
(* by character.                                                           *)
(*                                                                         *)
(* Of the filesystem's failures, a rename may fail whenever one is         *)
(* attempted, and File::create fails on a read-only config.ini; reading    *)
(* an existing config.ini and writing to a created one succeed.            *)
(*                                                                         *)
(* Spec runs every function on plain files in every layout of the DLL      *)
(* pair; SpecRewrite runs the functions that rewrite config.ini on every   *)
(* initial file of up to MaxLines lines.                                   *)
(*                                                                         *)
(* The other subsystems have a specification each, on the same variables:  *)
(* SpecStatus reads config.ini back (check_essential_status), SpecConf     *)
(* rewrites and reads t7patch.conf (t7patch.rs), SpecAsset picks the       *)
(* download of a release (dxvk::preferred_asset_url), SpecUninstall runs   *)
(* the uninstallers and restore_lpc_backups on a game directory whose      *)
(* removals, renames and listings may fail.  SpecApp is the update         *)
(* function of main.rs: user messages, the commands they spawn, the        *)
(* executor's steps                                                        *)
(* and the completion messages, for sessions of up to MaxOperations        *)
(* operations; SpecAppLive adds that the executor runs every command and   *)
(* that every completion message is delivered.  The game-directory field   *)
(* and the log pane of the application are left out.                       *)
(*                                                                         *)
(* SpecTwice repeats an update_config_values call with its rule list;      *)
(* SpecLpc and SpecLpcInstall run the LPC backup with the restore and with *)
(* the install of the LPC files, on directories whose files have content;  *)
(* SpecInstall installs and uninstalls the T7 patch.                       *)
(***************************************************************************)
EXTENDS Integers, Sequences, FiniteSets, TLC

VARIABLES fs, call, ret, before, app, worker, inbox, tally

\* the application: its fields, the commands it has spawned that are still
\* running, the completion messages not yet handled, and a count of both
appvars == <<app, worker, inbox, tally>>

vars == <<fs, call, ret, before, app, worker, inbox, tally>>

\* ------------------------------------------------------------------ bounds

\* the longest initial config.ini, in lines
MaxLines == 2

\* the longest rule list a caller hands to update_config_values
MaxRules == 2

\* ------------------------------------------------------------------- texts

Absent == "absent"

NoCall == [name |-> "none"]

NoRet == [result |-> "none", logs |-> <<>>, renames |-> <<>>, changes |-> <<>>]

\* a path that names no file, and a file with its content
NoFile == [exists |-> FALSE, content |-> <<>>]

File(content) == [exists |-> TRUE, content |-> content]

\* PatchOpsApp as new() builds it, before its first refresh_state
NewApp ==
    [busy |-> FALSE, gamertag_input |-> <<>>, password_input |-> <<>>,
     friends_only |-> FALSE, t7_status |-> <<>>, dxvk_installed |-> FALSE]

NoTally == [started |-> 0, handled |-> 0, failed |-> 0]

\* the backend called on its own: no application runs beside it
NoApplication ==
    /\ app = NewApp
    /\ worker = <<>>
    /\ inbox = <<>>
    /\ tally = NoTally

NoSnapshot == [config_ini |-> NoFile, read_only |-> FALSE, dll_file |-> Absent, dll_bak |-> Absent]

ReduceStutter == <<"R", "e", "d", "u", "c", "e", "S", "t", "u", "t", "t", "e", "r">>

BackbufferCount == <<"B", "a", "c", "k", "b", "u", "f", "f", "e", "r", "C", "o", "u", "n", "t">>

Vsync == <<"V", "s", "y", "n", "c">>

VsyncSyntheticLine == <<"V", "s", "y", "n", "c", " ", "=", " ", "\"", "1", "\"", " ", "/", "/", " ", "E", "n", "a", "b", "l", "e", "d", " ", "w", "i", "t", "h", " ", "t", "r", "i", "p", "l", "e", "-", "b", "u", "f", "f", "e", "r", "e", "d", " ", "V", "-", "s", "y", "n", "c">>

IsWhitespace(c) == c \in {" ", "\t", "\n", "\r", "\f"}

\* format!("{} = \"{}\" // {}", key, value, comment)
FormatSetting(key, value, comment) ==
    key \o <<" ", "=", " ", "\"">> \o value \o <<"\"", " ", "/", "/", " ">> \o comment

\* Regex::new(&format!(r"^\s*{}\s*=", regex::escape(key))): the pattern is
\* kept as the literal it was built from
KeyPattern(key) == [literal |-> key]

\* a slip in the pattern: the trailing \s*= left out, so that the literal
\* matches as a prefix of a longer key
is_match_prefix(pattern, text) ==
    LET k == Len(pattern.literal)
        n == Len(text)
    IN  \E i \in 0..n :
          /\ \A p \in 1..i : IsWhitespace(text[p])
          /\ i + k <= n
          /\ \A p \in 1..k : text[i + p] = pattern.literal[p]

\* Regex::is_match for ^\s*<literal>\s*= : some run of whitespace from the
\* start of the text, then the literal, then some run of whitespace, then '='
is_match(pattern, text) ==
    LET k == Len(pattern.literal)
        n == Len(text)
    IN  \E i \in 0..n :
          /\ \A p \in 1..i : IsWhitespace(text[p])
          /\ i + k < n
          /\ \A p \in 1..k : text[i + p] = pattern.literal[p]
          /\ \E j \in (i + k)..(n - 1) :
               /\ \A p \in (i + k + 1)..j : IsWhitespace(text[p])
               /\ text[j + 1] = "="

\* str::lines: split after every "\n"; a line loses its "\n" and then one
\* "\r" before it; a last piece without "\n" is a line as it stands, and an
\* empty last piece is no line
StripNewline(piece) ==
    LET n == Len(piece)
    IN  IF n >= 2 /\ piece[n - 1] = "\r"
        THEN SubSeq(piece, 1, n - 2)
        ELSE SubSeq(piece, 1, n - 1)

RECURSIVE SplitInclusive(_, _)
SplitInclusive(text, from) ==
    IF from > Len(text) THEN <<>>
    ELSE LET newlines == {p \in from..Len(text) : text[p] = "\n"}
             at == CHOOSE p \in newlines : \A q \in newlines : p <= q
         IN  IF newlines = {}
             THEN <<SubSeq(text, from, Len(text))>>
             ELSE <<SubSeq(text, from, at)>> \o SplitInclusive(text, at + 1)

lines(text) ==
    LET pieces == SplitInclusive(text, 1)
    IN  [i \in 1..Len(pieces) |->
            IF pieces[i][Len(pieces[i])] = "\n"
            THEN StripNewline(pieces[i])
            ELSE pieces[i]]

\* a slip in the writer: the lines joined by "\n", the last one left open
RECURSIVE WriteLinesJoined(_, _)
WriteLinesJoined(ls, i) ==
    IF i > Len(ls) THEN <<>>
    ELSE IF i = Len(ls) THEN ls[i]
         ELSE ls[i] \o <<"\n">> \o WriteLinesJoined(ls, i + 1)

\* writeln!(file, "{}", line) for every line, in order
RECURSIVE WriteLines(_, _)
WriteLines(ls, i) ==
    IF i > Len(ls) THEN <<>> ELSE ls[i] \o <<"\n">> \o WriteLines(ls, i + 1)

\* ------------------------------------------------------------ Line Rewriter

\* a slip in the inner loop: no break, so every later rule is tried on the
\* text an earlier rule put in place
RECURSIVE RewriteLineNoBreak(_, _, _)
RewriteLineNoBreak(line, changes, k) ==
    IF k > Len(changes) THEN line
    ELSE IF is_match(changes[k][1], line)
         THEN RewriteLineNoBreak(changes[k][2], changes, k + 1)
         ELSE RewriteLineNoBreak(line, changes, k + 1)

\* the inner loop of update_config_values: the first rule, from index k on,
\* whose pattern matches replaces the line, and the loop breaks
RECURSIVE RewriteLine(_, _, _)
RewriteLine(line, changes, k) ==
    IF k > Len(changes) THEN line
    ELSE IF is_match(changes[k][1], line) THEN changes[k][2]
         ELSE RewriteLine(line, changes, k + 1)

\* what a call leaves behind: the filesystem, the Result, the log entries, the
\* renames it attempted and the rule list it built
Outcome(f, result, logs) ==
    [fs |-> f, result |-> result, logs |-> logs, renames |-> <<>>, changes |-> <<>>]

LogEntry(category, message) == [category |-> category, message |-> message]

update_config_values(f, changes, success_message) ==
    IF ~f.config_ini.exists
    THEN Outcome(f, "ConfigNotFound", <<>>)
    ELSE LET old == lines(f.config_ini.content)
             new == [i \in 1..Len(old) |-> RewriteLine(old[i], changes, 1)]
         IN  IF f.read_only
             THEN Outcome(f, "IoError", <<>>)
             ELSE Outcome([f EXCEPT !.config_ini = File(WriteLines(new, 1))], "Ok",
                          <<LogEntry("Success", success_message)>>)

set_config_value(f, key, value, comment) ==
    update_config_values(f,
        <<<<KeyPattern(key), FormatSetting(key, value, comment)>>>>,
        <<"Set", key, "to", value>>)

\* ------------------------------------------------------------ Binary Toggle

\* a slip in the toggle: the file copied to its new name and left in place
RenameAsCopy(f, from, to, rename_fails, message) ==
    IF rename_fails
    THEN [Outcome(f, "IoError", <<>>) EXCEPT !.renames = <<<<from, to>>>>]
    ELSE [Outcome([f EXCEPT ![to] = f[from]], "Ok", <<LogEntry("Success", message)>>)
             EXCEPT !.renames = <<<<from, to>>>>]

\* fs::rename(from, to) inside toggle_stutter_reduction
Rename(f, from, to, rename_fails, message) ==
    IF rename_fails
    THEN [Outcome(f, "IoError", <<>>) EXCEPT !.renames = <<<<from, to>>>>]
    ELSE [Outcome([f EXCEPT ![to] = f[from], ![from] = Absent], "Ok",
                  <<LogEntry("Success", message)>>)
             EXCEPT !.renames = <<<<from, to>>>>]

\* a slip in the toggle: a missing file is an error instead of a warning
toggle_strict(f, enable, rename_fails) ==
    IF enable
    THEN IF f.dll_file # Absent
         THEN Rename(f, "dll_file", "dll_bak", rename_fails,
                     "Renamed d3dcompiler_46.dll to reduce stuttering")
         ELSE IF f.dll_bak # Absent
              THEN Outcome(f, "Ok", <<LogEntry("Info", "Stutter reduction already enabled")>>)
              ELSE Outcome(f, "IoError", <<>>)
    ELSE IF f.dll_bak # Absent
         THEN Rename(f, "dll_bak", "dll_file", rename_fails, "Restored d3dcompiler_46.dll")
         ELSE Outcome(f, "IoError", <<>>)

\* a slip in the toggle: disabling probes the primary file, not the backup
toggle_wrong_probe(f, enable, rename_fails) ==
    IF enable
    THEN IF f.dll_file # Absent
         THEN Rename(f, "dll_file", "dll_bak", rename_fails,
                     "Renamed d3dcompiler_46.dll to reduce stuttering")
         ELSE IF f.dll_bak # Absent
              THEN Outcome(f, "Ok", <<LogEntry("Info", "Stutter reduction already enabled")>>)
              ELSE Outcome(f, "Ok", <<LogEntry("Warning", "d3dcompiler_46.dll not found")>>)
    ELSE IF f.dll_file # Absent /\ f.dll_bak # Absent
         THEN Rename(f, "dll_bak", "dll_file", rename_fails, "Restored d3dcompiler_46.dll")
         ELSE Outcome(f, "Ok", <<LogEntry("Warning", "Backup not found to restore")>>)

toggle_stutter_reduction(f, enable, rename_fails) ==
    IF enable
    THEN IF f.dll_file # Absent
         THEN Rename(f, "dll_file", "dll_bak", rename_fails,
                     "Renamed d3dcompiler_46.dll to reduce stuttering")
         ELSE IF f.dll_bak # Absent
              THEN Outcome(f, "Ok", <<LogEntry("Info", "Stutter reduction already enabled")>>)
              ELSE Outcome(f, "Ok", <<LogEntry("Warning", "d3dcompiler_46.dll not found")>>)
    ELSE IF f.dll_bak # Absent
         THEN Rename(f, "dll_bak", "dll_file", rename_fails, "Restored d3dcompiler_46.dll")
         ELSE Outcome(f, "Ok", <<LogEntry("Warning", "Backup not found to restore")>>)

set_config_readonly(f, read_only) ==
    IF ~f.config_ini.exists
    THEN Outcome(f, "ConfigNotFound", <<>>)
    ELSE Outcome([f EXCEPT !.read_only = read_only], "Ok",
                 <<LogEntry("Success", IF read_only THEN "config.ini set to read-only"
                                                    ELSE "config.ini set to writable")>>)

\* ----------------------------------------------------------- Preset Applier

\* the loop of apply_preset over the preset's entries, taken in the order the
\* HashMap iterates them; out carries the filesystem, the rules pushed so far
\* and what the toggle logged and renamed
RECURSIVE ExpandPreset(_, _, _, _, _)
ExpandPreset(out, preset, order, k, rename_fails) ==
    IF k > Len(order) THEN out
    ELSE LET key == order[k]
             value == preset[key][1]
             comment == preset[key][2]
         IN  IF key = ReduceStutter
             THEN LET t == toggle_stutter_reduction(out.fs, value = <<"1">>, rename_fails)
                      o == [out EXCEPT !.fs = t.fs, !.result = t.result,
                                       !.logs = out.logs \o t.logs,
                                       !.renames = out.renames \o t.renames]
                  IN  IF t.result # "Ok" THEN o
                      ELSE ExpandPreset(o, preset, order, k + 1, rename_fails)
             ELSE LET rule == <<KeyPattern(key), FormatSetting(key, value, comment)>>
                      pushed == Append(out.changes, rule)
                      synthetic == <<KeyPattern(Vsync), VsyncSyntheticLine>>
                      c == IF key = BackbufferCount /\ value = <<"3">>
                           THEN Append(pushed, synthetic)
                           ELSE pushed
                  IN  ExpandPreset([out EXCEPT !.changes = c], preset, order, k + 1,
                                   rename_fails)

\* a slip in apply_preset: config.ini probed before the preset is looked up
apply_preset_config_first(f, preset_name, presets, order, rename_fails) ==
    IF ~f.config_ini.exists
    THEN Outcome(f, "ConfigNotFound", <<>>)
    ELSE IF preset_name \notin DOMAIN presets
         THEN Outcome(f, "PresetNotFound", <<>>)
         ELSE LET e == ExpandPreset(Outcome(f, "Ok", <<>>), presets[preset_name], order, 1,
                                    rename_fails)
                  u == update_config_values(e.fs, e.changes,
                                            <<"Applied preset", preset_name>>)
              IN  IF e.result # "Ok" THEN e
                  ELSE [u EXCEPT !.logs = e.logs \o u.logs, !.renames = e.renames,
                                 !.changes = e.changes]

\* a slip in apply_preset: no probe of its own, config.ini is first missed by
\* update_config_values, after the entries were expanded
apply_preset_late_check(f, preset_name, presets, order, rename_fails) ==
    IF preset_name \notin DOMAIN presets
    THEN Outcome(f, "PresetNotFound", <<>>)
    ELSE LET e == ExpandPreset(Outcome(f, "Ok", <<>>), presets[preset_name], order, 1,
                               rename_fails)
             u == update_config_values(e.fs, e.changes,
                                       <<"Applied preset", preset_name>>)
         IN  IF e.result # "Ok" THEN e
             ELSE [u EXCEPT !.logs = e.logs \o u.logs, !.renames = e.renames,
                            !.changes = e.changes]

apply_preset(f, preset_name, presets, order, rename_fails) ==
    IF preset_name \notin DOMAIN presets
    THEN Outcome(f, "PresetNotFound", <<>>)
    ELSE IF ~f.config_ini.exists
         THEN Outcome(f, "ConfigNotFound", <<>>)
         ELSE LET e == ExpandPreset(Outcome(f, "Ok", <<>>), presets[preset_name], order, 1,
                                    rename_fails)
                  u == update_config_values(e.fs, e.changes,
                                            <<"Applied preset", preset_name>>)
              IN  IF e.result # "Ok" THEN e
                  ELSE [u EXCEPT !.logs = e.logs \o u.logs, !.renames = e.renames,
                                 !.changes = e.changes]

\* ---------------------------------------------------------------- the input

\* lines an initial config.ini is made of
InitialLines ==
    { <<"\t", "V", "s", "y", "n", "c", "=", "\"", "1", "\"">>,
      <<"V", "s", "y", "n", "c", "M", "o", "d", "e", " ", "=", " ", "\"", "1", "\"">>,
      <<"N", "o", "V", "s", "y", "n", "c", " ", "=", " ", "\"", "1", "\"">>,
      <<"R", "e", "d", "u", "c", "e", "S", "t", "u", "t", "t", "e", "r", " ", "=", " ", "\"", "1", "\"">>,
      <<>> }

\* how the initial file ends its lines: LF, CRLF, or LF with the last line
\* left unterminated
Terminators == {"lf", "crlf", "lf-open"}

RECURSIVE Join(_, _, _)
Join(ls, style, i) ==
    IF i > Len(ls) THEN <<>>
    ELSE ls[i]
         \o (IF style = "crlf" THEN <<"\r", "\n">>
             ELSE IF style = "lf-open" /\ i = Len(ls) THEN <<>>
             ELSE <<"\n">>)
         \o Join(ls, style, i + 1)

SeqsUpTo(S, n) == UNION {[1..m -> S] : m \in 0..n}

InitialContents ==
    {File(Join(ls, style, 1)) : ls \in SeqsUpTo(InitialLines, MaxLines), style \in Terminators}

\* the plain files: some Vsync lines, each ended by LF
PlainContents ==
    {File(Join(ls, "lf", 1)) : ls \in SeqsUpTo({<<"\t", "V", "s", "y", "n", "c", "=", "\"", "1", "\"">>}, MaxLines)}

\* the rules a caller of update_config_values supplies
Rules ==
    { <<KeyPattern(Vsync), <<"R", "e", "d", "u", "c", "e", "S", "t", "u", "t", "t", "e", "r", " ", "=", " ", "\"", "1", "\"">>>>,
      <<KeyPattern(Vsync), <<"V", "s", "y", "n", "c", " ", "=", " ", "\"", "0", "\"", " ", "/", "/", " ", "o", "f", "f">>>>,
      <<KeyPattern(ReduceStutter), <<"N", "o", "V", "s", "y", "n", "c", " ", "=", " ", "\"", "1", "\"">>>> }

RuleLists == SeqsUpTo(Rules, MaxRules)

\* the preset table the caller loaded: preset name -> setting -> (value, comment)
Presets ==
    [ Smooth    |-> (Vsync :> <<<<"0">>, <<"o", "f", "f">>>>),
      Triple    |-> (BackbufferCount :> <<<<"3">>, <<"t", "r", "i", "p", "l", "e">>>>),
      TripleOff |-> (BackbufferCount :> <<<<"3">>, <<"t", "r", "i", "p", "l", "e">>>>) @@ (Vsync :> <<<<"0">>, <<"o", "f", "f">>>>),
      Double    |-> (BackbufferCount :> <<<<"2">>, <<"d", "o", "u", "b", "l", "e">>>>) @@ (Vsync :> <<<<"0">>, <<"o", "f", "f">>>>),
      Stutter   |-> (ReduceStutter :> <<<<"1">>, <<"o", "n">>>>) @@ (Vsync :> <<<<"0">>, <<"o", "f", "f">>>>),
      Restore   |-> (ReduceStutter :> <<<<"0">>, <<"o", "f", "f">>>>) ]

PresetNames == DOMAIN Presets \cup {"Unknown"}

\* the orders in which a HashMap may iterate the entries of a preset
Orders(preset) ==
    {o \in [1..Cardinality(DOMAIN preset) -> DOMAIN preset] :
        \A i, j \in DOMAIN o : o[i] = o[j] => i = j}

\* --------------------------------------------------------------- the machine

\* the game directory in every layout of the toggle pair, with a plain
\* config.ini or none
Init ==
    /\ fs \in [config_ini : PlainContents \cup {NoFile},
               read_only : {FALSE},
               dll_file : {Absent, "dll"},
               dll_bak : {Absent, "bak"}]
    /\ call = NoCall
    /\ ret = NoRet
    /\ before = NoSnapshot
    /\ NoApplication

\* a freshly installed game directory with any of the initial config.ini
InitRewrite ==
    /\ fs \in [config_ini : InitialContents,
               read_only : {FALSE},
               dll_file : {"dll"},
               dll_bak : {Absent}]
    /\ call = NoCall
    /\ ret = NoRet
    /\ before = NoSnapshot
    /\ NoApplication

\* a call runs to its end: the filesystem it found is kept in before, what it
\* returned in ret
Finish(c, out) ==
    /\ call' = c
    /\ before' = fs
    /\ fs' = out.fs
    /\ ret' = [result |-> out.result, logs |-> out.logs, renames |-> out.renames,
                changes |-> out.changes]
    /\ UNCHANGED appvars

UpdateConfigValues ==
    /\ call = NoCall
    /\ \E changes \in RuleLists :
        Finish([name |-> "update_config_values", changes |-> changes],
               update_config_values(fs, changes, <<"done">>))

SetConfigValue ==
    /\ call = NoCall
    /\ \E key \in {Vsync}, value \in {<<"0">>}, comment \in {<<"o", "f", "f">>} :
        Finish([name |-> "set_config_value", key |-> key, value |-> value,
                comment |-> comment],
               set_config_value(fs, key, value, comment))

\* the toggle is also called straight after another call, before the caller
\* has dropped that call's Result
ToggleStutterReduction ==
    /\ \E enable \in BOOLEAN, rename_fails \in BOOLEAN :
        Finish([name |-> "toggle_stutter_reduction", enable |-> enable,
                rename_fails |-> rename_fails],
               toggle_stutter_reduction(fs, enable, rename_fails))

SetConfigReadonly ==
    /\ call = NoCall
    /\ \E read_only \in BOOLEAN :
        Finish([name |-> "set_config_readonly", read_only |-> read_only],
               set_config_readonly(fs, read_only))

\* a rename can only fail in a preset that holds the toggle key
ApplyPreset ==
    /\ call = NoCall
    /\ \E preset_name \in PresetNames :
        \E order \in (IF preset_name \in DOMAIN Presets
                      THEN Orders(Presets[preset_name]) ELSE {<<>>}) :
          \E rename_fails \in (IF \E i \in DOMAIN order : order[i] = ReduceStutter
                                THEN BOOLEAN ELSE {FALSE}) :
            Finish([name |-> "apply_preset", preset_name |-> preset_name,
                    order |-> order, rename_fails |-> rename_fails],
                   apply_preset(fs, preset_name, Presets, order, rename_fails))

\* the caller drops the Result of the call
Return ==
    /\ call # NoCall
    /\ call' = NoCall
    /\ ret' = NoRet
    /\ before' = NoSnapshot
    /\ UNCHANGED <<fs, appvars>>

Next ==
    \/ UpdateConfigValues
    \/ SetConfigValue
    \/ ToggleStutterReduction
    \/ SetConfigReadonly
    \/ ApplyPreset
    \/ Return

\* every function of config.rs on the plain files
Spec == Init /\ [][Next]_vars

\* the functions that rewrite config.ini, on every initial config.ini
NextRewrite ==
    \/ UpdateConfigValues
    \/ SetConfigValue
    \/ ApplyPreset
    \/ Return

SpecRewrite == InitRewrite /\ [][NextRewrite]_vars

\* ------------------------------------------------------------------ claims

\* config.ini as the call found it and as it left it, read line by line
OldLines == lines(before.config_ini.content)

NewLines == lines(fs.config_ini.content)

Rewrote == call.name = "update_config_values" /\ ret.result = "Ok"

\* the indices of the rules of a list that match a line
Matching(changes, line) == {k \in DOMAIN changes : is_match(changes[k][1], line)}

Lowest(S) == CHOOSE k \in S : \A m \in S : k <= m

\* C1: update_config_values puts, in place of every line that matches at
\* least one rule, the replacement of the matching rule of lowest index;
\* rules after it are ignored for that line and none is applied to the
\* replacement text.
C1_FirstMatchWins ==
    Rewrote =>
        LET old == OldLines
            new == NewLines
        IN  /\ Len(new) = Len(old)
            /\ \A i \in DOMAIN old :
                  LET m == Matching(call.changes, old[i])
                  IN  m # {} => new[i] = call.changes[Lowest(m)][2]

\* a line matched by two rules with different replacements, the first of
\* which writes a text the second one matches as well
C1_Witness ==
    /\ Rewrote
    /\ LET old == OldLines
           new == NewLines
       IN  \E i \in DOMAIN old :
             \E a, b \in Matching(call.changes, old[i]) :
                /\ a < b
                /\ call.changes[a][2] # call.changes[b][2]
                /\ is_match(call.changes[b][1], call.changes[a][2])
                /\ new[i] = call.changes[a][2]

Count(text, c) == Cardinality({p \in DOMAIN text : text[p] = c})

\* C2: update_config_values writes back as many lines as it read, in the
\* same order; a line no rule matches is written unchanged at its position;
\* every written line ends with exactly one "\n" whatever ended it before;
\* a rule that matches no line adds nothing.
C2_LinesKept ==
    Rewrote =>
        LET written == fs.config_ini.content
            old == OldLines
            new == NewLines
        IN  /\ Len(new) = Len(old)
            /\ \A i \in DOMAIN old :
                  Matching(call.changes, old[i]) = {} => new[i] = old[i]
            /\ Count(written, "\n") = Len(old)
            /\ Count(written, "\r") = 0
            /\ written # <<>> => written[Len(written)] = "\n"

\* a two-line file with CRLF or an open last line, one line rewritten, one
\* kept, and a rule in the list that matches no line
C2_Witness ==
    /\ Rewrote
    /\ before.config_ini.content # fs.config_ini.content
    /\ \/ Count(before.config_ini.content, "\r") > 0
       \/ before.config_ini.content[Len(before.config_ini.content)] # "\n"
    /\ LET old == OldLines
           new == NewLines
       IN  /\ Len(old) = 2
           /\ \E i, j \in DOMAIN old :
                /\ Matching(call.changes, old[i]) # {}
                /\ Matching(call.changes, old[j]) = {}
                /\ new[j] = old[j]
                /\ old[j] # <<>>
           /\ \E k \in DOMAIN call.changes :
                \A i \in DOMAIN old : ~is_match(call.changes[k][1], old[i])

\* a line whose first text after leading whitespace is exactly the key,
\* followed by optional whitespace and '='
RunOfWhitespace(text, from) ==
    Cardinality({i \in from..Len(text) : \A p \in from..i : IsWhitespace(text[p])})

HasKey(text, key) ==
    LET a == RunOfWhitespace(text, 1)
        b == a + Len(key)
    IN  /\ b < Len(text)
        /\ SubSeq(text, a + 1, b) = key
        /\ text[b + RunOfWhitespace(text, b + 1) + 1] = "="

\* the line K = "V" // C
SettingLine(key, entry) ==
    key \o <<" ", "=", " ", "\"">> \o entry[1] \o <<"\"", " ", "/", "/", " ">> \o entry[2]

Applied == call.name = "apply_preset" /\ ret.result = "Ok"

ThePreset == Presets[call.preset_name]

TextKeys == DOMAIN ThePreset \ {ReduceStutter}

TripleBuffered ==
    BackbufferCount \in DOMAIN ThePreset /\ ThePreset[BackbufferCount][1] = <<"3">>

\* what the claim C3 says of a line and of the line written in its place
PresetLine(old, new) ==
    IF \E key \in TextKeys : HasKey(old, key)
    THEN \A key \in TextKeys : HasKey(old, key) => new = SettingLine(key, ThePreset[key])
    ELSE new = old

\* C3 as stated: apply_preset turns every line of a key K of the preset
\* into K = "V" // C and leaves every other line, the lines of longer keys
\* and of ReduceStutter among them, identical.
C3_EveryPresetLine ==
    Applied =>
        LET old == OldLines
            new == NewLines
        IN  /\ Len(new) = Len(old)
            /\ \A i \in DOMAIN old : PresetLine(old[i], new[i])

\* C3 as amended: the same, except that when the preset's BackbufferCount
\* is "3" nothing is said of the Vsync lines, which the synthetic rule
\* then rewrites too.
C3_PresetLinesButForcedVsync ==
    Applied =>
        LET old == OldLines
            new == NewLines
        IN  /\ Len(new) = Len(old)
            /\ \A i \in DOMAIN old :
                  ~(TripleBuffered /\ HasKey(old[i], Vsync)) => PresetLine(old[i], new[i])

\* an indented Vsync line rewritten by a preset that sets Vsync, next to a
\* kept line of a key that has Vsync as a proper prefix or suffix, or of
\* ReduceStutter under a preset holding ReduceStutter
C3_Witness ==
    /\ Applied
    /\ Vsync \in TextKeys
    /\ ~TripleBuffered
    /\ LET old == OldLines
           new == NewLines
       IN  \E i, j \in DOMAIN old :
             /\ HasKey(old[i], Vsync)
             /\ old[i][1] = "\t"
             /\ new[i] = SettingLine(Vsync, ThePreset[Vsync])
             /\ new[j] = old[j]
             /\ \/ old[j] = <<"V", "s", "y", "n", "c", "M", "o", "d", "e", " ", "=", " ", "\"", "1", "\"">>
                \/ old[j] = <<"N", "o", "V", "s", "y", "n", "c", " ", "=", " ", "\"", "1", "\"">>
                \/ /\ old[j] = <<"R", "e", "d", "u", "c", "e", "S", "t", "u", "t", "t", "e", "r", " ", "=", " ", "\"", "1", "\"">>
                   /\ ReduceStutter \in DOMAIN ThePreset

\* C4: a preset whose BackbufferCount is "3", applied to a file with a Vsync
\* line, leaves the fixed line Vsync = "1" // Enabled with triple-buffered
\* V-sync in the file, whatever the order of its entries and whatever else it
\* holds; with any other BackbufferCount value apply_preset does not write
\* that line.
C4_TripleBufferForcesVsync ==
    Applied =>
        LET old == OldLines
            new == NewLines
        IN  /\ (TripleBuffered /\ \E i \in DOMAIN old : HasKey(old[i], Vsync))
                  => \E j \in DOMAIN new : new[j] = VsyncSyntheticLine
            /\ ~TripleBuffered
                  => \A j \in DOMAIN new :
                        new[j] = VsyncSyntheticLine => old[j] = VsyncSyntheticLine

SamePresence(a, b) == (a = Absent) <=> (b = Absent)

\* C5: whenever apply_preset returns an error, config.ini has the content it
\* had and d3dcompiler_46.dll and d3dcompiler_46.dll.bak are present or
\* absent as they were.
C5_ErrorLeavesNoTrace ==
    (call.name = "apply_preset" /\ ret.result # "Ok") =>
        /\ fs.config_ini = before.config_ini
        /\ SamePresence(fs.dll_file, before.dll_file)
        /\ SamePresence(fs.dll_bak, before.dll_bak)

\* C6: apply_preset with a name that is no key of the preset table returns
\* the preset-not-found error, also when config.ini is missing too, writes
\* no file and renames nothing.
C6_UnknownPreset ==
    (call.name = "apply_preset" /\ call.preset_name \notin DOMAIN Presets) =>
        /\ ret.result = "PresetNotFound"
        /\ fs = before
        /\ ret.renames = <<>>
        /\ ret.logs = <<>>

\* the unknown name asked for while config.ini is missing and the DLL present
C6_Witness ==
    /\ call.name = "apply_preset"
    /\ call.preset_name \notin DOMAIN Presets
    /\ ~before.config_ini.exists
    /\ before.dll_file # Absent
    /\ ret.result = "PresetNotFound"

\* C7: without players/config.ini, update_config_values, set_config_value
\* and apply_preset return a not-found error and do not create the file;
\* apply_preset has then built no rule and not called the toggle, also for
\* a preset that holds ReduceStutter.
C7_MissingConfig ==
    (call.name \in {"update_config_values", "set_config_value", "apply_preset"}
        /\ ~before.config_ini.exists) =>
        /\ ret.result \in {"ConfigNotFound", "PresetNotFound"}
        /\ (ret.result = "PresetNotFound") <=>
               (call.name = "apply_preset" /\ call.preset_name \notin DOMAIN Presets)
        /\ fs = before
        /\ ret.changes = <<>>
        /\ ret.renames = <<>>
        /\ ret.logs = <<>>

\* a preset that would enable the toggle, applied first of all its entries,
\* with the DLL in place and config.ini missing
C7_Witness ==
    /\ call.name = "apply_preset"
    /\ call.preset_name \in DOMAIN Presets
    /\ ReduceStutter \in DOMAIN ThePreset
    /\ ThePreset[ReduceStutter][1] = <<"1">>
    /\ call.order[1] = ReduceStutter
    /\ ~before.config_ini.exists
    /\ before.dll_file # Absent
    /\ ret.result = "ConfigNotFound"

\* ------------------------------------------------------- claims: the toggle

Active(f) == f.dll_file # Absent /\ f.dll_bak = Absent

Disabled(f) == f.dll_file = Absent /\ f.dll_bak # Absent

Unknown(f) == f.dll_file = Absent /\ f.dll_bak = Absent

Toggled == call.name = "toggle_stutter_reduction"

\* C8: toggle_stutter_reduction returns Ok unless a rename fails, and moves
\* the pair as the table says: enabling from Active renames the primary to
\* the backup, enabling from Disabled or Unknown changes nothing, disabling
\* from Disabled renames the backup to the primary, disabling without a
\* backup changes nothing.
C8_TransitionTable ==
    Toggled =>
        /\ ret.result # "Ok" => (call.rename_fails /\ ret.renames # <<>>)
        /\ (call.enable /\ Active(before) /\ ~call.rename_fails) =>
               /\ fs = [before EXCEPT !.dll_file = Absent, !.dll_bak = before.dll_file]
               /\ ret.renames = <<<<"dll_file", "dll_bak">>>>
        /\ (call.enable /\ (Disabled(before) \/ Unknown(before))) =>
               (fs = before /\ ret.renames = <<>>)
        /\ (~call.enable /\ Disabled(before) /\ ~call.rename_fails) =>
               /\ fs = [before EXCEPT !.dll_file = before.dll_bak, !.dll_bak = Absent]
               /\ ret.renames = <<<<"dll_bak", "dll_file">>>>
        /\ (~call.enable /\ before.dll_bak = Absent) =>
               (fs = before /\ ret.renames = <<>>)

\* the feature enabled from Active
C8_Witness ==
    /\ Toggled
    /\ call.enable
    /\ ret.result = "Ok"
    /\ Active(before)
    /\ Disabled(fs)
    /\ fs.dll_bak = before.dll_file

\* C9: enabling from Active and then disabling gives back the layout there
\* was: the primary present with its content, no backup; enabling from
\* Unknown attempts no rename and leaves the filesystem as it is.
C9_RoundTrip ==
    [][ /\ ( /\ Toggled /\ call.enable /\ ret.result = "Ok" /\ Active(before)
             /\ call'.name = "toggle_stutter_reduction"
             /\ ~call'.enable /\ ~call'.rename_fails )
           => (ret'.result = "Ok" /\ fs' = before)
        /\ ( /\ call'.name = "toggle_stutter_reduction"
             /\ call'.enable /\ Unknown(fs) )
           => (ret'.result = "Ok" /\ ret'.renames = <<>> /\ fs' = fs)
      ]_vars

\* the primary restored from a backup that holds the primary's own content
C9_Witness ==
    /\ Toggled
    /\ ~call.enable
    /\ ret.result = "Ok"
    /\ Disabled(before)
    /\ before.dll_bak = "dll"
    /\ Active(fs)
    /\ fs.dll_file = "dll"

AtMostOne(f) == f.dll_file = Absent \/ f.dll_bak = Absent

ExactlyOne(f) == (f.dll_file = Absent) # (f.dll_bak = Absent)

\* C10: no call takes a pair with at most one file to a pair with both, nor
\* a pair with exactly one file to a pair with none; and a toggle that
\* repeats the enable value of the toggle that just returned Ok changes
\* nothing.
C10_TogglePair ==
    [][ /\ AtMostOne(fs) => AtMostOne(fs')
        /\ ExactlyOne(fs) => ExactlyOne(fs')
        /\ ( /\ Toggled /\ ret.result = "Ok"
             /\ call'.name = "toggle_stutter_reduction"
             /\ call'.enable = call.enable )
           => fs' = fs
      ]_vars

\* the toggle repeated on a pair an earlier toggle has already renamed
C10_Witness ==
    /\ Toggled
    /\ call.enable
    /\ ret.result = "Ok"
    /\ before = fs
    /\ Disabled(fs)
    /\ fs.dll_bak = "dll"
    /\ ret.renames = <<>>

\* ------------------------------------------------------------ Status Reader

\* Option<T>
None == [some |-> FALSE]

Some(value) == [some |-> TRUE, value |-> value]

\* the keys check_essential_status looks for, by the field each one feeds
TrackedKeys ==
    [ max_fps      |-> <<"M", "a", "x", "F", "P", "S">>,
      fov          |-> <<"F", "O", "V">>,
      display_mode |-> <<"F", "u", "l", "l", "S", "c", "r", "e", "e", "n", "M", "o", "d", "e">>,
      resolution   |-> <<"W", "i", "n", "d", "o", "w", "S", "i", "z", "e">>,
      refresh_rate |-> <<"R", "e", "f", "r", "e", "s", "h", "R", "a", "t", "e">>,
      vsync        |-> <<"V", "s", "y", "n", "c">>,
      draw_fps     |-> <<"D", "r", "a", "w", "F", "P", "S">>,
      all_settings |-> <<"R", "e", "s", "t", "r", "i", "c", "t", "G", "r", "a", "p", "h", "i", "c", "s", "O", "p", "t", "i", "o", "n", "s">>,
      smooth       |-> <<"S", "m", "o", "o", "t", "h", "F", "r", "a", "m", "e", "r", "a", "t", "e">>,
      vram_enabled |-> <<"V", "i", "d", "e", "o", "M", "e", "m", "o", "r", "y">>,
      stream_min   |-> <<"S", "t", "r", "e", "a", "m", "M", "i", "n", "R", "e", "s", "i", "d", "e", "n", "t">>,
      latency      |-> <<"M", "a", "x", "F", "r", "a", "m", "e", "L", "a", "t", "e", "n", "c", "y">>,
      reduce_cpu   |-> <<"S", "e", "r", "i", "a", "l", "i", "z", "e", "R", "e", "n", "d", "e", "r">> ]

\* #[derive(Default)]: zero, the empty string and false
EssentialStatusDefault ==
    [ max_fps |-> 0, fov |-> 0, display_mode |-> 0, resolution |-> <<>>,
      refresh_rate |-> 0, vsync |-> FALSE, draw_fps |-> FALSE,
      all_settings |-> FALSE, smooth |-> FALSE, vram |-> FALSE,
      vram_value |-> 0, latency |-> 0, reduce_cpu |-> FALSE,
      skip_intro |-> FALSE ]

\* the first position from `from` on that holds no whitespace, or one past
\* the end of the text
SkipWhitespace(text, from) ==
    LET stops == {p \in from..Len(text) : ~IsWhitespace(text[p])}
    IN  IF stops = {} THEN Len(text) + 1 ELSE Lowest(stops)

\* a match of KEY\s*=\s*"([^"]+)" that starts at position i: the span of its
\* group, or <<>> when there is no match from i.  \s and [^"] take line
\* breaks as they take any other character.
MatchAt(text, key, i) ==
    LET n == Len(text)
        k == Len(key)
    IN  IF i + k - 1 > n \/ \E p \in 1..k : text[i + p - 1] # key[p] THEN <<>>
        ELSE LET eq == SkipWhitespace(text, i + k)
             IN  IF eq > n \/ text[eq] # "=" THEN <<>>
                 ELSE LET open == SkipWhitespace(text, eq + 1)
                      IN  IF open > n \/ text[open] # "\"" THEN <<>>
                          ELSE LET quotes == {p \in (open + 1)..n : text[p] = "\""}
                               IN  IF quotes = {} \/ Lowest(quotes) = open + 1
                                   THEN <<>>
                                   ELSE <<open + 1, Lowest(quotes) - 1>>

\* Regex::new(pattern).ok().and_then(|re| re.captures(content))
\*     .and_then(|caps| caps.get(1)): the group of the leftmost match
captures(content, key) ==
    LET starts == {i \in 1..Len(content) :
                      content[i] = key[1] /\ MatchAt(content, key, i) # <<>>}
    IN  IF starts = {} THEN None
        ELSE LET span == MatchAt(content, key, Lowest(starts))
             IN  Some(SubSeq(content, span[1], span[2]))

Digits == <<"0", "1", "2", "3", "4", "5", "6", "7", "8", "9">>

IsDigit(c) == \E d \in DOMAIN Digits : Digits[d] = c

DigitValue(c) == (CHOOSE d \in DOMAIN Digits : Digits[d] = c) - 1

RECURSIVE DecimalValue(_, _)
DecimalValue(text, n) ==
    IF n = 0 THEN 0 ELSE 10 * DecimalValue(text, n - 1) + DigitValue(text[n])

\* str::parse::<i32>: an optional sign and then digits, nothing else; the
\* values read here are a few digits long, far inside the range of i32
parse_i32(text) ==
    LET signed == text # <<>> /\ text[1] \in {"+", "-"}
        digits == IF signed THEN Tail(text) ELSE text
    IN  IF digits = <<>> \/ \E p \in DOMAIN digits : ~IsDigit(digits[p])
        THEN None
        ELSE Some((IF text[1] = "-" THEN -1 ELSE 1)
                  * DecimalValue(digits, Len(digits)))

\* str::parse::<f32> on decimal literals of at most two fraction digits, the
\* kind the game writes; an f32 is kept in hundredths
parse_f32(text) ==
    LET dots == {p \in DOMAIN text : text[p] = "."}
        whole == IF dots = {} THEN text ELSE SubSeq(text, 1, Lowest(dots) - 1)
        fraction == IF dots = {} THEN <<>>
                    ELSE SubSeq(text, Lowest(dots) + 1, Len(text))
    IN  IF \/ Cardinality(dots) > 1
           \/ whole \o fraction = <<>>
           \/ Len(fraction) > 2
           \/ \E p \in DOMAIN whole : ~IsDigit(whole[p])
           \/ \E p \in DOMAIN fraction : ~IsDigit(fraction[p])
        THEN None
        ELSE Some(100 * DecimalValue(whole, Len(whole))
                  + (IF Len(fraction) = 1 THEN 10 ELSE 1)
                    * DecimalValue(fraction, Len(fraction)))

capture_int(content, key, default) ==
    LET m == captures(content, key)
    IN  IF m.some /\ parse_i32(m.value).some THEN parse_i32(m.value).value
        ELSE default

capture_float(content, key, default) ==
    LET m == captures(content, key)
    IN  IF m.some /\ parse_f32(m.value).some THEN parse_f32(m.value).value
        ELSE default

capture_string(content, key, default) ==
    LET m == captures(content, key)
    IN  IF m.some THEN m.value ELSE default

capture_bool(content, key, default) ==
    LET m == captures(content, key)
    IN  IF m.some THEN m.value = <<"1">> ELSE default

\* a slip in the derived flag: either raw value at its baseline clears it
vram_override_either(vram_enabled, stream_min) ==
    ~(vram_enabled = <<"1">> \/ stream_min = <<"0">>)

\* status.vram = !(vram_enabled == "1" && stream_min == "0")
vram_override(vram_enabled, stream_min) ==
    ~(vram_enabled = <<"1">> /\ stream_min = <<"0">>)

\* check_essential_status(game_dir); reading an existing config.ini may fail
check_essential_status(f, read_fails) ==
    IF ~f.config_ini.exists
    THEN [result |-> "Ok", status |-> EssentialStatusDefault]
    ELSE IF read_fails
    THEN [result |-> "IoError", status |-> EssentialStatusDefault]
    ELSE
        LET content == f.config_ini.content
            vram_enabled == capture_string(content, TrackedKeys.vram_enabled, <<"1">>)
            stream_min == capture_string(content, TrackedKeys.stream_min, <<"0">>)
        IN  [ result |-> "Ok",
              status |->
                [ max_fps      |-> capture_int(content, TrackedKeys.max_fps, 165),
                  fov          |-> capture_int(content, TrackedKeys.fov, 80),
                  display_mode |-> capture_int(content, TrackedKeys.display_mode, 1),
                  resolution   |-> capture_string(content, TrackedKeys.resolution,
                                                  <<"2", "5", "6", "0", "x", "1", "4", "4", "0">>),
                  refresh_rate |-> capture_float(content, TrackedKeys.refresh_rate,
                                                 16500),
                  vsync        |-> capture_bool(content, TrackedKeys.vsync, TRUE),
                  draw_fps     |-> capture_bool(content, TrackedKeys.draw_fps, FALSE),
                  all_settings |-> capture_bool(content, TrackedKeys.all_settings,
                                                FALSE),
                  smooth       |-> capture_bool(content, TrackedKeys.smooth, FALSE),
                  vram         |-> vram_override(vram_enabled, stream_min),
                  vram_value   |-> IF parse_f32(vram_enabled).some
                                   THEN parse_f32(vram_enabled).value ELSE 75,
                  latency      |-> capture_int(content, TrackedKeys.latency, 1),
                  reduce_cpu   |-> capture_bool(content, TrackedKeys.reduce_cpu, FALSE),
                  skip_intro   |-> f.intro_bak ] ]

\* ------------------------------------------------- the status reader's input

\* the longest config.ini the status reader is given, in lines
MaxStatusLines == 2

\* lines of a config.ini: tracked keys with values that parse and values
\* that do not, and a line cut short inside its value
StatusLines ==
    { <<"M", "a", "x", "F", "P", "S", " ", "=", " ", "\"", "6", "0", "\"">>,
      <<"F", "O", "V", " ", "=", " ", "\"", "w", "i", "d", "e", "\"">>,
      <<"V", "s", "y", "n", "c", " ", "=", " ", "\"", "0", "\"">>,
      <<"V", "s", "y", "n", "c", " ", "=", " ", "\"", "1">>,
      <<"V", "i", "d", "e", "o", "M", "e", "m", "o", "r", "y", " ", "=", " ", "\"", "1", "\"">>,
      <<"V", "i", "d", "e", "o", "M", "e", "m", "o", "r", "y", " ", "=", " ", "\"", "0", ".", "7", "5", "\"">>,
      <<"S", "t", "r", "e", "a", "m", "M", "i", "n", "R", "e", "s", "i", "d", "e", "n", "t", " ", "=", " ", "\"", "0", "\"">>,
      <<"S", "t", "r", "e", "a", "m", "M", "i", "n", "R", "e", "s", "i", "d", "e", "n", "t", " ", "=", " ", "\"", "1", "\"">> }

StatusContents ==
    {File(Join(ls, "lf", 1)) : ls \in SeqsUpTo(StatusLines, MaxStatusLines)}

\* a game directory with any of these config.ini or none, with and without
\* the backup of the intro video
InitStatus ==
    /\ fs \in [config_ini : StatusContents \cup {NoFile},
               read_only : {FALSE},
               dll_file : {"dll"},
               dll_bak : {Absent},
               intro_bak : BOOLEAN]
    /\ call = NoCall
    /\ ret = NoRet
    /\ before = NoSnapshot
    /\ NoApplication

CheckEssentialStatus ==
    /\ call = NoCall
    /\ \E read_fails \in (IF fs.config_ini.exists THEN BOOLEAN ELSE {FALSE}) :
        /\ call' = [name |-> "check_essential_status", read_fails |-> read_fails]
        /\ ret' = check_essential_status(fs, read_fails)
    /\ before' = fs
    /\ UNCHANGED <<fs, appvars>>

NextStatus ==
    \/ CheckEssentialStatus
    \/ Return

\* the status reader on every config.ini of up to MaxStatusLines lines
SpecStatus == InitStatus /\ [][NextStatus]_vars

\* ------------------------------------------------ claims: the status reader

StatusRead == call.name = "check_essential_status" /\ ret.result = "Ok"

\* what check_essential_status returns for the directory f once its
\* config.ini holds the lines ls
StatusOfLines(f, ls) ==
    check_essential_status([f EXCEPT !.config_ini = File(Join(ls, "lf", 1))],
                           FALSE).status

\* C11: on a game directory without players/config.ini the status read
\* returns Ok and the snapshot it returns for an existing config.ini that
\* holds no tracked key: max_fps 165, fov 80, display_mode 1, resolution
\* 2560x1440, vsync true, latency 1, the other booleans false.
C11_MissingFileDefaults ==
    (call.name = "check_essential_status" /\ ~before.config_ini.exists) =>
        /\ ret.result = "Ok"
        /\ ret.status = StatusOfLines(before, <<>>)
        /\ ret.status.max_fps = 165
        /\ ret.status.fov = 80
        /\ ret.status.display_mode = 1
        /\ ret.status.resolution = <<"2", "5", "6", "0", "x", "1", "4", "4", "0">>
        /\ ret.status.vsync
        /\ ret.status.latency = 1

\* the fields read from config.ini, and the tracked keys each is read from
TrackedFields == DOMAIN EssentialStatusDefault \ {"skip_intro"}

Feeds(field) ==
    IF field = "vram" THEN {"vram_enabled", "stream_min"}
    ELSE IF field = "vram_value" THEN {"vram_enabled"}
    ELSE {field}

\* the line is the line of one of the given tracked keys
LineOf(line, keys) ==
    \E k \in keys : is_match(KeyPattern(TrackedKeys[k]), line)

Insert(ls, p, x) == SubSeq(ls, 1, p - 1) \o <<x>> \o SubSeq(ls, p, Len(ls))

Remove(ls, p) == SubSeq(ls, 1, p - 1) \o SubSeq(ls, p + 1, Len(ls))

\* the files one step away from ls: a line of a tracked key outside `keys`
\* added, removed, or changed into another such line
Edits(ls, keys) ==
    LET others == {x \in StatusLines : LineOf(x, DOMAIN TrackedKeys \ keys)}
        theirs == {p \in DOMAIN ls : LineOf(ls[p], DOMAIN TrackedKeys \ keys)}
    IN  {Insert(ls, p, x) : p \in 1..(Len(ls) + 1), x \in others}
        \cup {Remove(ls, p) : p \in theirs}
        \cup {[ls EXCEPT ![p] = x] : p \in theirs, x \in others}

\* C12: for an existing config.ini and every tracked field, the status read
\* returns the field's documented default when no line of the file is the
\* line of the field's key, and adding, removing or changing the line of
\* any other tracked key never changes the field.
C12_FieldsIndependent ==
    (StatusRead /\ before.config_ini.exists) =>
        LET ls == lines(before.config_ini.content)
        IN  \A field \in TrackedFields :
              /\ (\A p \in DOMAIN ls : ~LineOf(ls[p], Feeds(field)))
                     => ret.status[field] = StatusOfLines(before, <<>>)[field]
              /\ \A other \in Edits(ls, Feeds(field)) :
                     StatusOfLines(before, other)[field] = ret.status[field]

\* the value between the first two quotes of a line
QuotedValue(line) ==
    LET quotes == {p \in DOMAIN line : line[p] = "\""}
        open == Lowest(quotes)
    IN  IF Cardinality(quotes) < 2 THEN None
        ELSE Some(SubSeq(line, open + 1, Lowest(quotes \ {open}) - 1))

\* the raw value of a key in a file read line by line: the quoted value of
\* the key's first line, or the given one when the file has no such line
RawValue(ls, k, absent) ==
    LET own == {p \in DOMAIN ls : LineOf(ls[p], {k})}
    IN  IF own = {} THEN absent ELSE QuotedValue(ls[Lowest(own)]).value

\* every line of the key carries a quoted value
Quoted(ls, k) ==
    \A p \in DOMAIN ls :
        LineOf(ls[p], {k}) => QuotedValue(ls[p]).some /\ QuotedValue(ls[p]).value # <<>>

\* C13: with the raw values of VideoMemory and StreamMinResident read from
\* their lines, an absent VideoMemory counting as "1" and an absent
\* StreamMinResident as "0", the vram field is true iff not (VideoMemory is
\* "1" and StreamMinResident is "0").
C13_VramOverride ==
    LET ls == lines(before.config_ini.content)
    IN  ( /\ StatusRead
          /\ before.config_ini.exists
          /\ Quoted(ls, "vram_enabled")
          /\ Quoted(ls, "stream_min") )
        => ( ret.status.vram
             <=> ~( /\ RawValue(ls, "vram_enabled", <<"1">>) = <<"1">>
                    /\ RawValue(ls, "stream_min", <<"0">>) = <<"0">> ) )

\* VideoMemory at "1" on its line, StreamMinResident off its baseline
C13_Witness ==
    LET ls == lines(before.config_ini.content)
    IN  /\ StatusRead
        /\ before.config_ini.exists
        /\ \E p \in DOMAIN ls : LineOf(ls[p], {"vram_enabled"})
        /\ RawValue(ls, "vram_enabled", <<"1">>) = <<"1">>
        /\ RawValue(ls, "stream_min", <<"0">>) = <<"1">>
        /\ ret.status.vram

\* C14: whatever config.ini holds and whether or not it exists, skip_intro
\* is the presence of video/BO3_Global_Logo_LogoSequence.mkv.bak.
C14_SkipIntroIsBackup ==
    StatusRead => (ret.status.skip_intro <=> before.intro_bak)

\* -------------------------------------------------------------- t7patch.conf

PlayerName == <<"p", "l", "a", "y", "e", "r", "n", "a", "m", "e", "=">>

NetworkPassword == <<"n", "e", "t", "w", "o", "r", "k", "p", "a", "s", "s", "w", "o", "r", "d", "=">>

IsFriendsOnly == <<"i", "s", "f", "r", "i", "e", "n", "d", "s", "o", "n", "l", "y", "=">>

\* str::starts_with
starts_with(text, prefix) ==
    Len(text) >= Len(prefix) /\ SubSeq(text, 1, Len(prefix)) = prefix

\* if flag { "1" } else { "0" }
FlagText(flag) == IF flag THEN <<"1">> ELSE <<"0">>

\* which branch of the read loop of update_t7patch_conf takes the line
ConfBranch(line, new_name, new_password, friends_only) ==
    IF new_name.some /\ starts_with(line, PlayerName) THEN "name"
    ELSE IF new_password.some /\ starts_with(line, NetworkPassword) THEN "password"
    ELSE IF friends_only.some /\ starts_with(line, IsFriendsOnly) THEN "friends"
    ELSE "keep"

\* the line the read loop pushes for a line it read
RewriteConfLine(line, new_name, new_password, friends_only) ==
    LET branch == ConfBranch(line, new_name, new_password, friends_only)
    IN  IF branch = "name" THEN PlayerName \o new_name.value
        ELSE IF branch = "password" THEN NetworkPassword \o new_password.value
        ELSE IF branch = "friends" THEN IsFriendsOnly \o FlagText(friends_only.value)
        ELSE line

\* a slip after the loop: the lines pushed whether or not the key was found
AppendedConfLinesAlways(ls, new_name, new_password, friends_only) ==
    (IF new_name.some THEN <<PlayerName \o new_name.value>> ELSE <<>>)
    \o (IF new_password.some
        THEN <<NetworkPassword \o new_password.value>> ELSE <<>>)
    \o (IF friends_only.some
        THEN <<IsFriendsOnly \o FlagText(friends_only.value)>> ELSE <<>>)

\* the lines pushed after the loop: one for every supplied key whose branch
\* no line took, in the order name, password, friends-only
AppendedConfLines(ls, new_name, new_password, friends_only) ==
    LET found(branch) ==
            \E i \in DOMAIN ls :
                ConfBranch(ls[i], new_name, new_password, friends_only) = branch
    IN  (IF new_name.some /\ ~found("name")
         THEN <<PlayerName \o new_name.value>> ELSE <<>>)
        \o (IF new_password.some /\ ~found("password")
            THEN <<NetworkPassword \o new_password.value>> ELSE <<>>)
        \o (IF friends_only.some /\ ~found("friends")
            THEN <<IsFriendsOnly \o FlagText(friends_only.value)>> ELSE <<>>)

\* the log entries written after the loop
ConfLogs(new_name, new_password, friends_only) ==
    (IF new_name.some
     THEN <<LogEntry("Success", <<"Updated 'playername' to", new_name.value>>)>>
     ELSE <<>>)
    \o (IF new_password.some
        THEN <<LogEntry("Success",
                        IF new_password.value = <<>>
                        THEN <<"Cleared network password">>
                        ELSE <<"Updated network password">>)>>
        ELSE <<>>)
    \o (IF friends_only.some
        THEN <<LogEntry("Success",
                        <<"Set 'isfriendsonly' to",
                          IF friends_only.value THEN "On" ELSE "Off">>)>>
        ELSE <<>>)

\* the Vec<String> update_t7patch_conf holds once it has read the file
NewConfLines(content, new_name, new_password, friends_only) ==
    LET old == lines(content)
    IN  [i \in 1..Len(old) |->
            RewriteConfLine(old[i], new_name, new_password, friends_only)]
        \o AppendedConfLines(old, new_name, new_password, friends_only)

\* update_t7patch_conf(game_dir, new_name, new_password, friends_only).
\* fault names the step that fails, if one does: File::open, File::create,
\* or the first writeln!, which leaves the file as File::create truncated it
update_t7patch_conf(f, new_name, new_password, friends_only, fault) ==
    IF ~f.t7patch_conf.exists
    THEN Outcome(f, "Ok", <<LogEntry("Warning", <<"t7patch.conf not found">>)>>)
    ELSE IF fault = "open"
    THEN Outcome(f, "IoError", <<>>)
    ELSE LET new == NewConfLines(f.t7patch_conf.content, new_name, new_password,
                                 friends_only)
             logs == ConfLogs(new_name, new_password, friends_only)
         IN  IF fault = "create"
             THEN Outcome(f, "IoError", logs)
             ELSE IF fault = "write" /\ new # <<>>
             THEN Outcome([f EXCEPT !.t7patch_conf = File(<<>>)], "IoError", logs)
             ELSE Outcome([f EXCEPT !.t7patch_conf = File(WriteLines(new, 1))],
                          "Ok", logs)

\* T7PatchStatus::default()
T7PatchStatusDefault ==
    [gamertag |-> None, plain_name |-> None, color_code |-> None,
     password |-> None, friends_only |-> None]

\* line.split_once('=').map(|(_, v)| ..) on the last line with the prefix:
\* the read loop of check_t7_patch_status lets a later line overwrite an
\* earlier one
LastValue(ls, prefix) ==
    LET own == {i \in DOMAIN ls : starts_with(ls[i], prefix)}
        last == CHOOSE i \in own : \A j \in own : j <= i
    IN  IF own = {} THEN None
        ELSE Some(SubSeq(ls[last], Len(prefix) + 1, Len(ls[last])))

\* the split of the gamertag into its color code and the plain name; a
\* character is one byte here
SplitColorCode(gamertag) ==
    IF ~gamertag.some THEN [color_code |-> None, plain_name |-> None]
    ELSE IF gamertag.value # <<>> /\ gamertag.value[1] = "^" /\ Len(gamertag.value) >= 2
    THEN [color_code |-> Some(SubSeq(gamertag.value, 1, 2)),
          plain_name |-> Some(SubSeq(gamertag.value, 3, Len(gamertag.value)))]
    ELSE [color_code |-> None, plain_name |-> gamertag]

\* check_t7_patch_status(game_dir); opening an existing t7patch.conf may fail
check_t7_patch_status(f, fault) ==
    IF ~f.t7patch_conf.exists
    THEN [result |-> "Ok", status |-> T7PatchStatusDefault]
    ELSE IF fault = "open"
    THEN [result |-> "IoError", status |-> T7PatchStatusDefault]
    ELSE LET ls == lines(f.t7patch_conf.content)
             gamertag == LastValue(ls, PlayerName)
             password == LastValue(ls, NetworkPassword)
             friends == LastValue(ls, IsFriendsOnly)
             split == SplitColorCode(gamertag)
         IN  [ result |-> "Ok",
               status |->
                 [ gamertag     |-> gamertag,
                   plain_name   |-> split.plain_name,
                   color_code   |-> split.color_code,
                   password     |-> password,
                   friends_only |-> IF friends.some
                                    THEN Some(friends.value = <<"1">>) ELSE None ] ]

\* ------------------------------------------------- the input of t7patch.conf

\* the longest t7patch.conf, in lines
MaxConfLines == 2

\* lines of a t7patch.conf: the three keys, a key of no interest, and a
\* player name set off from the start of its line
ConfLines ==
    { <<"p", "l", "a", "y", "e", "r", "n", "a", "m", "e", "=", "^", "1", "A", "l">>,
      <<"p", "l", "a", "y", "e", "r", "n", "a", "m", "e", "=", "A", "l">>,
      <<"n", "e", "t", "w", "o", "r", "k", "p", "a", "s", "s", "w", "o", "r", "d", "=", "p", "w">>,
      <<"i", "s", "f", "r", "i", "e", "n", "d", "s", "o", "n", "l", "y", "=", "1">>,
      <<"f", "o", "v", "=", "9", "0">>,
      <<" ", "p", "l", "a", "y", "e", "r", "n", "a", "m", "e", "=", "A", "l">> }

ConfContents ==
    {File(Join(ls, style, 1)) : ls \in SeqsUpTo(ConfLines, MaxConfLines),
                                style \in Terminators}

\* what the caller passes for a name, a password and the friends-only flag
NewNames == {None, Some(<<"^", "2", "B", "o">>), Some(<<"A", "l">>)}

NewPasswords == {None, Some(<<>>), Some(<<"p", "w">>)}

NewFlags == {None, Some(TRUE), Some(FALSE)}

InitConf ==
    /\ fs \in [t7patch_conf : ConfContents \cup {NoFile}]
    /\ call = NoCall
    /\ ret = NoRet
    /\ before = NoSnapshot
    /\ NoApplication

UpdateT7patchConf ==
    /\ call = NoCall
    /\ \E new_name \in NewNames, new_password \in NewPasswords,
          friends_only \in NewFlags, fault \in {"none", "open", "create", "write"} :
        Finish([name |-> "update_t7patch_conf", new_name |-> new_name,
                new_password |-> new_password, friends_only |-> friends_only,
                fault |-> fault],
               update_t7patch_conf(fs, new_name, new_password, friends_only, fault))

CheckT7PatchStatus ==
    /\ call = NoCall
    /\ \E fault \in {"none", "open"} :
        /\ call' = [name |-> "check_t7_patch_status", fault |-> fault]
        /\ ret' = check_t7_patch_status(fs, fault)
    /\ before' = fs
    /\ UNCHANGED <<fs, appvars>>

NextConf ==
    \/ UpdateT7patchConf
    \/ CheckT7PatchStatus
    \/ Return

\* update_t7patch_conf and check_t7_patch_status on every t7patch.conf of up
\* to MaxConfLines lines
SpecConf == InitConf /\ [][NextConf]_vars

\* ------------------------------------------------------ claims: t7patch.conf

ConfUpdated ==
    /\ call.name = "update_t7patch_conf"
    /\ ret.result = "Ok"
    /\ before.t7patch_conf.exists

\* the keys the call supplies a value for, with the line each one writes
Supplied ==
    (IF call.new_name.some
     THEN <<<<PlayerName, PlayerName \o call.new_name.value>>>> ELSE <<>>)
    \o (IF call.new_password.some
        THEN <<<<NetworkPassword, NetworkPassword \o call.new_password.value>>>>
        ELSE <<>>)
    \o (IF call.friends_only.some
        THEN <<<<IsFriendsOnly, IsFriendsOnly \o FlagText(call.friends_only.value)>>>>
        ELSE <<>>)

\* C17: on an existing t7patch.conf, update_t7patch_conf rewrites in place
\* every line that starts with key= for a supplied key to key=newvalue,
\* appends exactly one line key=newvalue at the end for a supplied key no
\* line starts with, and keeps every other line, the lines of keys passed
\* as None among them, unchanged and in order.
C17_UpdateOrAppend ==
    ConfUpdated =>
        LET old == lines(before.t7patch_conf.content)
            new == lines(fs.t7patch_conf.content)
            keys == Supplied
            has(k) == \E i \in DOMAIN old : starts_with(old[i], keys[k][1])
            missing == {k \in DOMAIN keys : ~has(k)}
        IN  /\ Len(new) = Len(old) + Cardinality(missing)
            /\ \A i \in DOMAIN old :
                  /\ \A k \in DOMAIN keys :
                        starts_with(old[i], keys[k][1]) => new[i] = keys[k][2]
                  /\ (\A k \in DOMAIN keys : ~starts_with(old[i], keys[k][1]))
                        => new[i] = old[i]
            /\ \A k \in missing :
                  Cardinality({i \in (Len(old) + 1)..Len(new) :
                                   new[i] = keys[k][2]}) = 1
            /\ Count(fs.t7patch_conf.content, "\n") = Len(new)

\* two lines of one key rewritten, a second key appended, a third passed as
\* None
C17_Witness ==
    /\ ConfUpdated
    /\ LET old == lines(before.t7patch_conf.content)
           new == lines(fs.t7patch_conf.content)
       IN  /\ call.new_name.some
           /\ call.friends_only.some
           /\ ~call.new_password.some
           /\ Len(old) = 2
           /\ \A i \in DOMAIN old : starts_with(old[i], PlayerName)
           /\ old[1] # old[2]
           /\ Len(new) = 3
           /\ new[1] = new[2]
           /\ new[1] # old[1]
           /\ new[1] # old[2]

\* C21: a missing required configuration file is surfaced to the caller:
\* update_t7patch_conf called when t7patch.conf does not exist returns an
\* error, never Ok.
C21_MissingConfIsError ==
    (call.name = "update_t7patch_conf" /\ ~before.t7patch_conf.exists)
        => ret.result # "Ok"

\* ------------------------------------------------------- DXVK release assets

UpperCase == <<"A", "B", "C", "D", "E", "F", "G", "H", "I", "J", "K", "L", "M", "N", "O", "P", "Q", "R", "S", "T", "U", "V", "W", "X", "Y", "Z">>

LowerCase == <<"a", "b", "c", "d", "e", "f", "g", "h", "i", "j", "k", "l", "m", "n", "o", "p", "q", "r", "s", "t", "u", "v", "w", "x", "y", "z">>

\* str::to_lowercase, on ASCII text
to_lowercase(text) ==
    [p \in DOMAIN text |->
        IF \E u \in DOMAIN UpperCase : UpperCase[u] = text[p]
        THEN LowerCase[CHOOSE u \in DOMAIN UpperCase : UpperCase[u] = text[p]]
        ELSE text[p]]

\* str::ends_with
ends_with(text, suffix) ==
    /\ Len(text) >= Len(suffix)
    /\ SubSeq(text, Len(text) - Len(suffix) + 1, Len(text)) = suffix

\* a slip in the table: the tarballs tried before the zip
preferred_suffixes_tar_first ==
    <<<<".", "t", "a", "r", ".", "x", "z">>, <<".", "z", "i", "p">>, <<".", "t", "a", "r", ".", "g", "z">>, <<".", "t", "a", "r", ".", "b", "z", "2">>, <<".", "t", "a", "r", ".", "z", "s", "t">>, <<".", "t", "z", "s", "t">>>>

preferred_suffixes ==
    <<<<".", "z", "i", "p">>, <<".", "t", "a", "r", ".", "x", "z">>, <<".", "t", "a", "r", ".", "g", "z">>, <<".", "t", "a", "r", ".", "b", "z", "2">>, <<".", "t", "a", "r", ".", "z", "s", "t">>, <<".", "t", "z", "s", "t">>>>

\* candidates.iter().find(|link| link.url.to_lowercase().ends_with(suffix)):
\* the index of the first such candidate, 0 when there is none
FindSuffix(candidates, suffix) ==
    LET hits == {i \in DOMAIN candidates :
                    ends_with(to_lowercase(candidates[i].url), suffix)}
    IN  IF hits = {} THEN 0 ELSE Lowest(hits)

\* the loop over preferred_suffixes from index s on, and the fallback to the
\* first candidate after it
RECURSIVE PreferredFrom(_, _)
PreferredFrom(candidates, s) ==
    IF s > Len(preferred_suffixes) THEN candidates[1].url
    ELSE IF FindSuffix(candidates, preferred_suffixes[s]) # 0
         THEN candidates[FindSuffix(candidates, preferred_suffixes[s])].url
         ELSE PreferredFrom(candidates, s + 1)

\* the candidates of a release: its links, its sources when no link was pushed
Candidates(release) ==
    LET links == IF release.assets.some /\ release.assets.value.links.some
                 THEN release.assets.value.links.value ELSE <<>>
        sources == IF release.assets.some /\ release.assets.value.sources.some
                   THEN release.assets.value.sources.value ELSE <<>>
    IN  IF links # <<>> THEN links ELSE sources

preferred_asset_url(release) ==
    IF Candidates(release) = <<>>
    THEN [result |-> "NoAsset", url |-> <<>>]
    ELSE [result |-> "Ok", url |-> PreferredFrom(Candidates(release), 1)]

\* the positions of a character in a text
Positions(text, c) == {p \in DOMAIN text : text[p] = c}

Highest(S) == CHOOSE k \in S : \A m \in S : m <= k

\* download_file: the archive is stored under the last path segment of its
\* URL, under dxvk-gplasync when that segment is empty
file_name(url) ==
    LET slashes == Positions(url, "/")
        last == IF slashes = {} THEN url
                ELSE SubSeq(url, Highest(slashes) + 1, Len(url))
    IN  IF last = <<>> THEN <<"d", "x", "v", "k", "-", "g", "p", "l", "a", "s", "y", "n", "c">> ELSE last

\* Path::extension of a file name: the text after its last dot, none when
\* the name has no dot after its first character
path_extension(name) ==
    LET dots == Positions(name, ".") \ {1}
    IN  IF dots = {} THEN None ELSE Some(SubSeq(name, Highest(dots) + 1, Len(name)))

\* extract_archive(archive_path, extract_dir): the extractor the archive is
\* handed to, by its name
extract_archive(archive_path) ==
    LET name == to_lowercase(archive_path)
        ext == path_extension(archive_path)
        lower == IF ext.some THEN to_lowercase(ext.value) ELSE <<>>
    IN  IF ends_with(name, <<".", "z", "i", "p">>) THEN "extract_zip"
        ELSE IF lower = <<"g", "z">> \/ lower = <<"t", "g", "z">> \/ ends_with(name, <<".", "t", "a", "r", ".", "g", "z">>)
        THEN "extract_tar_gz"
        ELSE IF ends_with(name, <<".", "t", "a", "r", ".", "x", "z">>) THEN "extract_tar_xz"
        ELSE IF ends_with(name, <<".", "t", "a", "r", ".", "z", "s", "t">>) \/ ends_with(name, <<".", "t", "z", "s", "t">>)
        THEN "extract_tar_zst"
        ELSE "Unsupported"

\* ---------------------------------------------------- the input of releases

\* the longest list of links, and of sources, of a release
MaxAssets == 2

ReleaseAssetLink(url) == [url |-> url]

\* the links a release offers: archives of every preferred kind, one of
\* them named in capitals, an installer, and an archive below a path
LinkUrls ==
    { <<"a", ".", "Z", "I", "P">>, <<"b", ".", "z", "i", "p">>, <<"c", ".", "t", "a", "r", ".", "x", "z">>, <<"d", ".", "t", "a", "r", ".", "g", "z">>, <<"e", ".", "t", "a", "r", ".", "b", "z", "2">>,
      <<"f", ".", "t", "a", "r", ".", "z", "s", "t">>, <<"g", ".", "t", "z", "s", "t">>, <<"h", ".", "e", "x", "e">>, <<"v", ".", "1", "/", "i", ".", "t", "g", "z">> }

SourceUrls == { <<"s", ".", "t", "a", "r", ".", "g", "z">>, <<"s", ".", "z", "i", "p">> }

AssetLists(urls) ==
    {None} \cup {Some([i \in DOMAIN l |-> ReleaseAssetLink(l[i])]) :
                    l \in SeqsUpTo(urls, MaxAssets)}

Releases ==
    {[assets |-> None]}
    \cup {[assets |-> Some([links |-> links, sources |-> sources])] :
             links \in AssetLists(LinkUrls), sources \in AssetLists(SourceUrls)}

\* nothing is on disk when the release metadata is looked at
InitAsset ==
    /\ fs = NoSnapshot
    /\ call = NoCall
    /\ ret = NoRet
    /\ before = NoSnapshot
    /\ NoApplication

PreferredAssetUrl ==
    /\ call = NoCall
    /\ \E release \in Releases :
        /\ call' = [name |-> "preferred_asset_url", release |-> release]
        /\ ret' = preferred_asset_url(release)
    /\ before' = fs
    /\ UNCHANGED <<fs, appvars>>

\* dxvk::install goes on with the URL preferred_asset_url returned: the
\* archive is downloaded and handed to extract_archive
ExtractArchive ==
    /\ call.name = "preferred_asset_url"
    /\ ret.result = "Ok"
    /\ call' = [name |-> "extract_archive", release |-> call.release,
                archive_path |-> file_name(ret.url)]
    /\ ret' = [result |-> extract_archive(file_name(ret.url)), url |-> ret.url]
    /\ before' = fs
    /\ UNCHANGED <<fs, appvars>>

NextAsset ==
    \/ PreferredAssetUrl
    \/ ExtractArchive
    \/ Return

\* preferred_asset_url on every release of up to MaxAssets links and sources
SpecAsset == InitAsset /\ [][NextAsset]_vars

\* --------------------------------------------------- claims: release assets

\* the order of preference as the specification gives it
StatedPreference ==
    <<<<".", "z", "i", "p">>, <<".", "t", "a", "r", ".", "x", "z">>, <<".", "t", "a", "r", ".", "g", "z">>, <<".", "t", "a", "r", ".", "b", "z", "2">>, <<".", "t", "a", "r", ".", "z", "s", "t">>, <<".", "t", "z", "s", "t">>>>

\* the URLs of the links of the release of the call, of its sources when it
\* has no links
StatedCandidates ==
    LET assets == call.release.assets
        urls(list) == IF assets.some /\ list.some
                      THEN [i \in DOMAIN list.value |-> list.value[i].url]
                      ELSE <<>>
        links == IF assets.some THEN urls(assets.value.links) ELSE <<>>
    IN  IF links # <<>> THEN links
        ELSE IF assets.some THEN urls(assets.value.sources) ELSE <<>>

\* the candidate ends with the suffix of that rank once lower-cased
Ends(url, rank) == ends_with(to_lowercase(url), StatedPreference[rank])

\* C19: preferred_asset_url returns the first candidate, in list order, that
\* ends (lower-cased) with the most preferred suffix any candidate ends
\* with; the first candidate when none ends with a preferred suffix; and an
\* error when there is no candidate.
C19_PreferredAsset ==
    call.name = "preferred_asset_url" =>
        LET c == StatedCandidates
            present == {r \in DOMAIN StatedPreference :
                           \E i \in DOMAIN c : Ends(c[i], r)}
            best == Lowest(present)
        IN  IF c = <<>> THEN ret.result # "Ok"
            ELSE /\ ret.result = "Ok"
                 /\ IF present = {} THEN ret.url = c[1]
                    ELSE \E i \in DOMAIN c :
                            /\ ret.url = c[i]
                            /\ Ends(c[i], best)
                            /\ \A j \in 1..(i - 1) : ~Ends(c[j], best)

\* a tarball listed before a zip that is named in capitals
C19_Witness ==
    /\ call.name = "preferred_asset_url"
    /\ LET c == StatedCandidates
       IN  /\ Len(c) = 2
           /\ Ends(c[1], 3)
           /\ Ends(c[2], 1)
           /\ c[2] # to_lowercase(c[2])
           /\ ret.url = c[2]

\* the suffixes of the archives the extractor is stated to unpack
StatedSupported ==
    {<<".", "z", "i", "p">>, <<".", "g", "z">>, <<".", "t", "g", "z">>, <<".", "t", "a", "r", ".", "g", "z">>, <<".", "t", "a", "r", ".", "x", "z">>, <<".", "t", "a", "r", ".", "z", "s", "t">>, <<".", "t", "z", "s", "t">>}

Supported(url) == \E suffix \in StatedSupported : ends_with(to_lowercase(url), suffix)

\* C25: whenever a candidate of the release is an archive of a supported
\* kind, the archive downloaded from the URL preferred_asset_url returned
\* is handed to an extractor by extract_archive, not rejected as unsupported.
C25_ChosenAssetExtractable ==
    (call.name = "extract_archive"
        /\ \E i \in DOMAIN Candidates(call.release) :
              Supported(Candidates(call.release)[i].url))
    => ret.result # "Unsupported"

\* ------------------------------------------------------------ the uninstalls

\* The game directory holds files with their content, t7patch.conf apart,
\* which is kept as the text it is; the LPC directory holds files with
\* their content under names that are kept as their dot-separated parts,
\* so that Path::extension and Path::with_extension are computed on them.
\* A call is given the kinds of filesystem step that fail while it runs.

DXVK_ASYNC_FILES == <<"dxgi.dll", "d3d11.dll">>

T7PatchFiles ==
    <<"t7patch.dll", "t7patch.conf", "discord_game_sdk.dll", "dsound.dll",
      "t7patchloader.dll", "zbr2.dll">>

NoDir == [exists |-> FALSE, files |-> {}]

Dir(files) == [exists |-> TRUE, files |-> files]

\* the LPC directory: the names of its files and the content under each
NoLpcDir == [exists |-> FALSE, files |-> {}, content |-> [n \in {} |-> ""]]

LpcDir(content) == [exists |-> TRUE, files |-> DOMAIN content, content |-> content]

\* fs::remove_file, fs::rename (which replaces a file at the new name) and
\* fs::copy on the files of a directory
remove_file(content, path) == [n \in DOMAIN content \ {path} |-> content[n]]

rename(content, from, to) ==
    [n \in (DOMAIN content \ {from}) \cup {to} |->
        IF n = to THEN content[from] ELSE content[n]]

copy(content, to, data) ==
    [n \in DOMAIN content \cup {to} |-> IF n = to THEN data ELSE content[n]]

Range(s) == {s[i] : i \in DOMAIN s}

\* Path::extension: the part after the last dot
extension(path) == IF Len(path) >= 2 THEN Some(path[Len(path)]) ELSE None

\* Path::with_extension: the part after the last dot replaced
with_extension(path, ext) ==
    (IF Len(path) >= 2 THEN SubSeq(path, 1, Len(path) - 1) ELSE path) \o ext

\* what an operation leaves behind: the filesystem, the Result, the log
\* entries, and the steps that failed while it ran
Effect(f, result, logs, failed) ==
    [fs |-> f, result |-> result, logs |-> logs, failed |-> failed]

is_installed(f) ==
    \A i \in DOMAIN DXVK_ASYNC_FILES : DXVK_ASYNC_FILES[i] \in DOMAIN f.game

\* fs::remove_file(path).ok() for every listed file that exists: nothing is
\* removed when removing fails, and the failure is dropped
RemoveQuietly(game, files, faults) ==
    IF "remove" \in faults THEN game ELSE [n \in DOMAIN game \ files |-> game[n]]

FailedRemovals(game, files, faults) ==
    IF "remove" \in faults
    THEN {<<"remove_file", <<file>>>> : file \in DOMAIN game \cap files}
    ELSE {}

\* dxvk::uninstall(game_dir)
dxvk_uninstall(f, faults) ==
    IF ~is_installed(f)
    THEN Effect(f, "Ok",
                     <<LogEntry("Info", <<"DXVK-GPLAsync is not installed">>)>>, {})
    ELSE LET files == Range(DXVK_ASYNC_FILES) \cup {"dxvk.conf"}
             removed == [i \in DOMAIN DXVK_ASYNC_FILES |->
                            LogEntry("Success", <<"Removed", DXVK_ASYNC_FILES[i]>>)]
             conf == IF "dxvk.conf" \in DOMAIN f.game
                     THEN <<LogEntry("Success", <<"Removed dxvk.conf">>)>> ELSE <<>>
         IN  Effect([f EXCEPT !.game = RemoveQuietly(f.game, files, faults)],
                         "Ok",
                         removed \o conf
                         \o <<LogEntry("Success",
                                       <<"DXVK-GPLAsync has been uninstalled">>)>>,
                         FailedRemovals(f.game, files, faults))

\* the loop of restore_lpc_backups over the entries read_dir yields, from
\* entry k on
RECURSIVE RestoreEntries(_, _, _, _)
RestoreEntries(content, order, k, faults) ==
    IF k > Len(order)
    THEN [content |-> content, result |-> "Ok", failed |-> {}]
    ELSE LET path == order[k]
             dest == with_extension(path, <<"ff">>)
         IN  IF extension(path) # Some("bak")
             THEN RestoreEntries(content, order, k + 1, faults)
             ELSE IF dest \in DOMAIN content /\ "remove" \in faults
             THEN [content |-> content, result |-> "IoError",
                   failed |-> {<<"remove_file", dest>>}]
             ELSE IF "rename" \in faults
             THEN [content |-> remove_file(content, dest), result |-> "IoError",
                   failed |-> {<<"rename", path>>}]
             ELSE RestoreEntries(rename(content, path, dest), order, k + 1, faults)

\* restore_lpc_backups(game_dir); order is the order in which read_dir
\* yields the entries of the LPC directory
restore_lpc_backups(f, order, faults) ==
    IF ~f.lpc.exists THEN Effect(f, "Ok", <<>>, {})
    ELSE IF "read_dir" \in faults
    THEN Effect(f, "IoError", <<>>, {<<"read_dir", <<"LPC">>>>})
    ELSE LET done == RestoreEntries(f.lpc.content, order, 1, faults)
         IN  Effect([f EXCEPT !.lpc = LpcDir(done.content)], done.result,
                         IF done.result = "Ok"
                         THEN <<LogEntry("Success", <<"Restored LPC backups">>)>>
                         ELSE <<>>,
                         done.failed)

\* uninstall_t7_patch(game_dir, mod_dir)
uninstall_t7_patch(f, order, faults) ==
    LET game == RemoveQuietly(f.game, Range(T7PatchFiles), faults)
        conf == IF "remove" \in faults THEN f.t7patch_conf ELSE NoFile
        linux == IF f.linux.exists /\ "remove" \notin faults THEN NoDir ELSE f.linux
        zip == f.zip /\ "remove" \in faults
        restored == restore_lpc_backups(f, order, faults)
    IN  Effect([f EXCEPT !.game = game, !.t7patch_conf = conf,
                              !.linux = linux, !.zip = zip,
                              !.lpc = restored.fs.lpc],
                    "Ok",
                    restored.logs
                    \o <<LogEntry("Success",
                                  <<"T7 Patch has been completely uninstalled">>)>>,
                    FailedRemovals(f.game, Range(T7PatchFiles), faults)
                    \cup (IF "remove" \in faults
                          THEN (IF f.t7patch_conf.exists
                                THEN {<<"remove_file", <<"t7patch.conf">>>>} ELSE {})
                               \cup {<<"remove_file", <<"linux", file>>>> : file \in f.linux.files}
                               \cup (IF f.linux.exists
                                     THEN {<<"remove_dir_all", <<"linux">>>>} ELSE {})
                               \cup (IF f.zip
                                     THEN {<<"remove_file", <<"T7Patch.zip">>>>} ELSE {})
                          ELSE {})
                    \cup restored.failed)

\* ------------------------------------------------- the input of the uninstalls

\* the files of the LPC directory: a backup, the file it was made of, the
\* file a restore makes of it, and a backup without its file
LpcFiles ==
    { <<"core", "ff">>, <<"core", "ff", "bak">>, <<"core", "ff", "ff">>,
      <<"mp", "ff", "bak">> }

\* a directory of such files, the content of each one told by its name
Named(files) ==
    LpcDir([n \in files |-> IF extension(n) = Some("bak") THEN "original"
                            ELSE "patched"])

\* the kinds of step that may fail during a call
Faults == SUBSET {"remove", "rename", "read_dir"}

\* the orders in which read_dir may yield the files of a directory
ReadDirOrders(files) ==
    {o \in [1..Cardinality(files) -> files] :
        \A i, j \in DOMAIN o : o[i] = o[j] => i = j}

\* DXVK installed, half installed or not, the T7 patch installed with its
\* download kept in the mod directory or not installed, any LPC directory
InitUninstall ==
    /\ \E dxvk \in SUBSET (Range(DXVK_ASYNC_FILES) \cup {"dxvk.conf"}),
          t7 \in BOOLEAN,
          lpc \in {NoLpcDir} \cup {Named(files) : files \in SUBSET LpcFiles} :
        fs = [game |-> [n \in dxvk \cup (IF t7 THEN Range(T7PatchFiles) \ {"t7patch.conf"}
                                         ELSE {}) |-> "installed"],
              t7patch_conf |-> IF t7 THEN File(<<"p", "l", "a", "y", "e", "r", "n", "a", "m", "e", "=", "A", "l", "\n">>) ELSE NoFile,
              linux |-> IF t7 THEN Dir({"t7patch.dll"}) ELSE NoDir,
              zip |-> t7,
              lpc |-> lpc]
    /\ call = NoCall
    /\ ret = NoRet
    /\ before = NoSnapshot
    /\ NoApplication

\* a call runs to its end
FinishUninstall(c, out) ==
    /\ call' = c
    /\ before' = fs
    /\ fs' = out.fs
    /\ ret' = [result |-> out.result, logs |-> out.logs, failed |-> out.failed]
    /\ UNCHANGED appvars

DxvkUninstall ==
    /\ call = NoCall
    /\ \E faults \in SUBSET {"remove"} :
        FinishUninstall([name |-> "dxvk::uninstall", faults |-> faults],
                        dxvk_uninstall(fs, faults))

UninstallT7Patch ==
    /\ call = NoCall
    /\ \E faults \in Faults, order \in ReadDirOrders(fs.lpc.files) :
        FinishUninstall([name |-> "uninstall_t7_patch", faults |-> faults,
                         order |-> order],
                        uninstall_t7_patch(fs, order, faults))

\* the restore is also called straight after a backup, before the caller
\* has dropped the backup's Result
RestoreLpcBackups ==
    /\ call.name \in {"none", "backup_lpc_files"}
    /\ \E faults \in Faults, order \in ReadDirOrders(fs.lpc.files) :
        FinishUninstall([name |-> "restore_lpc_backups", faults |-> faults,
                         order |-> order],
                        restore_lpc_backups(fs, order, faults))

NextUninstall ==
    \/ DxvkUninstall
    \/ UninstallT7Patch
    \/ RestoreLpcBackups
    \/ Return

\* the uninstalls on every such game directory, under every choice of
\* failing steps
SpecUninstall == InitUninstall /\ [][NextUninstall]_vars

\* ------------------------------------------------------ claims: the uninstalls

\* C20: a backend operation in which a read, write, rename or remove step
\* failed returns an error to its caller; it never reports success.
C20_FailureIsFatal ==
    (call.name \in {"dxvk::uninstall", "uninstall_t7_patch", "restore_lpc_backups"}
        /\ ret.failed # {})
    => ret.result # "Ok"

\* C28: after dxvk::uninstall returns Ok, from any game directory, a
\* partial install included, none of dxgi.dll, d3d11.dll and dxvk.conf is
\* left and is_installed is false.
C28_UninstallRemovesAll ==
    (call.name = "dxvk::uninstall" /\ ret.result = "Ok")
    => /\ \A n \in Range(DXVK_ASYNC_FILES) \cup {"dxvk.conf"} : n \notin DOMAIN fs.game
       /\ ~is_installed(fs)

\* ------------------------------------------------------------- the installs

\* what the network gives an install: the downloads, or a failure before
\* anything is written
Fetches == {"ok", "remote_failure"}

\* the t7patch.conf of the patch archive
ArchiveConf == File(<<"p", "l", "a", "y", "e", "r", "n", "a", "m", "e", "=", "P", "l", "\n">>)

\* the files of the patch archive under linux/, t7patch.conf apart
PatchArchive == [n \in Range(T7PatchFiles) \ {"t7patch.conf"} |-> "patch"]

\* the files of the LPC archive
LpcArchive == [n \in {<<"core", "ff">>, <<"readme", "txt">>} |-> "lpc"]

\* a slip in the backup: the .ff entry renamed over a backup that exists
RECURSIVE BackupEntriesOverwriting(_, _, _, _, _)
BackupEntriesOverwriting(content, order, k, faults, backed_up) ==
    IF k > Len(order)
    THEN [content |-> content, result |-> "Ok", failed |-> {}, backed_up |-> backed_up]
    ELSE LET path == order[k]
             backup == with_extension(path, <<"ff", "bak">>)
         IN  IF extension(path) # Some("ff")
             THEN BackupEntriesOverwriting(content, order, k + 1, faults, backed_up)
             ELSE IF "rename" \in faults
             THEN [content |-> content, result |-> "IoError",
                   failed |-> {<<"rename", path>>}, backed_up |-> backed_up]
             ELSE BackupEntriesOverwriting(rename(content, path, backup), order, k + 1,
                                           faults, backed_up + 1)

\* the loop of backup_lpc_files over the entries read_dir yields, from
\* entry k on: a .ff entry without a backup is renamed to its .ff.bak
RECURSIVE BackupEntries(_, _, _, _, _)
BackupEntries(content, order, k, faults, backed_up) ==
    IF k > Len(order)
    THEN [content |-> content, result |-> "Ok", failed |-> {}, backed_up |-> backed_up]
    ELSE LET path == order[k]
             backup == with_extension(path, <<"ff", "bak">>)
         IN  IF extension(path) # Some("ff") \/ backup \in DOMAIN content
             THEN BackupEntries(content, order, k + 1, faults, backed_up)
             ELSE IF "rename" \in faults
             THEN [content |-> content, result |-> "IoError",
                   failed |-> {<<"rename", path>>}, backed_up |-> backed_up]
             ELSE BackupEntries(rename(content, path, backup), order, k + 1, faults,
                                backed_up + 1)

\* backup_lpc_files(game_dir); create_dir_all makes the LPC directory when
\* there is none
backup_lpc_files(f, order, faults) ==
    LET made == [f EXCEPT !.lpc = LpcDir(@.content)]
    IN  IF "read_dir" \in faults
        THEN Effect(made, "IoError", <<>>, {<<"read_dir", <<"LPC">>>>})
        ELSE LET done == BackupEntries(made.lpc.content, order, 1, faults, 0)
             IN  Effect([made EXCEPT !.lpc = LpcDir(done.content)], done.result,
                        IF done.result = "Ok" /\ done.backed_up > 0
                        THEN <<LogEntry("Success",
                                        <<"Created backups for", ToString(done.backed_up),
                                          "LPC files">>)>>
                        ELSE <<>>,
                        done.failed)

\* the .ff files of the archive, copied one by one into the LPC directory
CopiedLpc(content) ==
    [n \in DOMAIN content \cup {a \in DOMAIN LpcArchive : extension(a) = Some("ff")} |->
        IF n \in DOMAIN LpcArchive /\ extension(n) = Some("ff")
        THEN LpcArchive[n] ELSE content[n]]

\* install_lpc_files(game_dir, mod_dir) with the archive as fetched
install_lpc_files(f, fetch, order, faults) ==
    IF fetch # "ok"
    THEN Effect(f, "RemoteFailure", <<>>, {})
    ELSE LET saved == backup_lpc_files(f, order, faults)
         IN  IF saved.result # "Ok" THEN saved
             ELSE IF "copy" \in faults
             THEN Effect(saved.fs, "IoError", saved.logs, {<<"copy", <<"LPC">>>>})
             ELSE Effect([saved.fs EXCEPT !.lpc = LpcDir(CopiedLpc(@.content))],
                         "Ok",
                         saved.logs
                         \o <<LogEntry("Success",
                                       <<"Installed LPC files successfully">>)>>,
                         {})

\* a slip in the copy loop: t7patch.conf copied like every other file
CopiedConfAlways(conf) == ArchiveConf

\* the copy loop of install_t7_patch at t7patch.conf: the file is skipped
\* when the game directory has one
CopiedConf(conf) == IF conf.exists THEN conf ELSE ArchiveConf

\* install_t7_patch(game_dir, mod_dir) with the archives as fetched: either
\* download may fail; the files under linux/ are copied over the game
\* directory, t7patch.conf as CopiedConf has it, and the LPC files are
\* installed
install_t7_patch(f, fetch, order, faults) ==
    LET downloading == <<LogEntry("Info", <<"Downloading T7 Patch...">>)>>
        extracted == downloading
                     \o <<LogEntry("Success", <<"Extracted T7 Patch archive">>)>>
        unpacked == [f EXCEPT !.zip = TRUE, !.linux = Dir(Range(T7PatchFiles))]
    IN  IF fetch = "remote_failure"
        THEN Effect(f, "RemoteFailure", downloading, {})
        ELSE IF "copy" \in faults
        THEN Effect(unpacked, "IoError", extracted, {<<"copy", <<"linux">>>>})
        ELSE LET copied ==
                     [unpacked EXCEPT
                        !.game = [n \in DOMAIN @ \cup DOMAIN PatchArchive |->
                                     IF n \in DOMAIN PatchArchive
                                     THEN PatchArchive[n] ELSE @[n]],
                        !.t7patch_conf = CopiedConf(@)]
                 lpc == install_lpc_files(copied,
                                          IF fetch = "ok" THEN "ok" ELSE "remote_failure",
                                          order, faults)
             IN  Effect(lpc.fs, lpc.result,
                        extracted \o lpc.logs
                        \o (IF lpc.result = "Ok"
                            THEN <<LogEntry("Success",
                                            <<"T7 Patch installation complete">>)>>
                            ELSE <<>>),
                        lpc.failed)

\* dxvk::install(game_dir, mod_dir) with the release as fetched
dxvk_install(f, fetch) ==
    IF is_installed(f)
    THEN Effect(f, "Ok",
                <<LogEntry("Info", <<"DXVK-GPLAsync is already installed">>)>>, {})
    ELSE IF fetch = "remote_failure"
    THEN Effect(f, "RemoteFailure",
                <<LogEntry("Info", <<"Querying DXVK-GPLAsync releases...">>)>>, {})
    ELSE LET files == Range(DXVK_ASYNC_FILES) \cup {"dxvk.conf"}
         IN  Effect([f EXCEPT !.game = [n \in DOMAIN @ \cup files |->
                                          IF n \in files THEN "dxvk" ELSE @[n]]],
                    "Ok",
                    <<LogEntry("Info", <<"Querying DXVK-GPLAsync releases...">>),
                      LogEntry("Success", <<"Wrote dxvk.conf">>)>>,
                    {})

\* ---------------------------------------------------------- the application

\* The messages of PatchOpsApp::update are the actions; Command::perform
\* puts a command into worker, where the executor runs it beside the event
\* loop, and the command's result enters inbox as its completion message.
\* update_t7patch_conf runs in two steps, the read loop and the rewrite of
\* the file, so that another command could come between them; the installs
\* and uninstalls run in one.  The game directory entered in the window is
\* left as it is: the messages that edit it are not modelled, and
\* SaveGameDir is its refresh_state.

\* the number of operations a session starts
MaxOperations == 2

\* refresh_state; fault names the step of check_t7_patch_status that fails
refresh_state(a, f, fault) ==
    LET read == check_t7_patch_status(f, fault)
        status == read.status
        shown ==
            IF read.result # "Ok"
            THEN [a EXCEPT !.t7_status = <<"Unable to read t7patch.conf">>]
            ELSE [a EXCEPT
                    !.t7_status = IF status.gamertag.some THEN status.gamertag.value
                                  ELSE <<"T7 Patch not detected">>,
                    !.gamertag_input = IF status.plain_name.some
                                       THEN status.plain_name.value ELSE @,
                    !.password_input = IF status.password.some
                                       THEN status.password.value ELSE @,
                    !.friends_only = IF status.friends_only.some
                                     THEN status.friends_only.value ELSE @]
    IN  [shown EXCEPT !.dxvk_installed = is_installed(f)]

\* the future handed to Command::perform, with the message its result is
\* wrapped in
Command(op, message, args) ==
    [op |-> op, message |-> message, args |-> args, phase |-> "spawned",
     lines |-> <<>>]

NoArgs == [new_name |-> None, new_password |-> None, friends_only |-> None]

\* self.busy = true; Command::perform(..)
Start(op, message, args) ==
    /\ tally.started < MaxOperations
    /\ worker' = Append(worker, Command(op, message, args))
    /\ tally' = [tally EXCEPT !.started = @ + 1]
    /\ UNCHANGED <<fs, call, ret, before, inbox>>

GamertagChanged ==
    /\ \E value \in {<<"B", "o">>} : app' = [app EXCEPT !.gamertag_input = value]
    /\ UNCHANGED <<fs, call, ret, before, worker, inbox, tally>>

PasswordChanged ==
    /\ \E value \in {<<"p", "w">>} : app' = [app EXCEPT !.password_input = value]
    /\ UNCHANGED <<fs, call, ret, before, worker, inbox, tally>>

SaveGameDir ==
    /\ \E fault \in (IF fs.t7patch_conf.exists THEN {"none", "open"} ELSE {"none"}) :
        app' = refresh_state(app, fs, fault)
    /\ UNCHANGED <<fs, call, ret, before, worker, inbox, tally>>

\* a slip in the handler: the operation started whether or not one is running
FriendsOnlyToggledWhileBusy ==
    \E value \in BOOLEAN :
        /\ app' = [app EXCEPT !.friends_only = value, !.busy = TRUE]
        /\ Start("update_t7patch_conf", "FriendsOnlyUpdated",
                 [NoArgs EXCEPT !.friends_only = Some(value)])

FriendsOnlyToggled ==
    \E value \in BOOLEAN :
        IF app.busy
        THEN /\ app' = [app EXCEPT !.friends_only = value]
             /\ UNCHANGED <<fs, call, ret, before, worker, inbox, tally>>
        ELSE /\ app' = [app EXCEPT !.friends_only = value, !.busy = TRUE]
             /\ Start("update_t7patch_conf", "FriendsOnlyUpdated",
                      [NoArgs EXCEPT !.friends_only = Some(value)])

InstallPatch ==
    IF app.busy THEN UNCHANGED vars
    ELSE /\ app' = [app EXCEPT !.busy = TRUE]
         /\ Start("install_t7_patch", "PatchInstalled", NoArgs)

UninstallPatch ==
    IF app.busy THEN UNCHANGED vars
    ELSE /\ app' = [app EXCEPT !.busy = TRUE]
         /\ Start("uninstall_t7_patch", "PatchUninstalled", NoArgs)

UpdateGamertag ==
    IF app.busy THEN UNCHANGED vars
    ELSE /\ app' = [app EXCEPT !.busy = TRUE]
         /\ Start("update_t7patch_conf", "GamertagUpdated",
                  [NoArgs EXCEPT !.new_name = Some(app.gamertag_input)])

UpdatePassword ==
    IF app.busy THEN UNCHANGED vars
    ELSE /\ app' = [app EXCEPT !.busy = TRUE]
         /\ Start("update_t7patch_conf", "PasswordUpdated",
                  [NoArgs EXCEPT !.new_password = Some(app.password_input)])

InstallDxvk ==
    IF app.busy THEN UNCHANGED vars
    ELSE /\ app' = [app EXCEPT !.busy = TRUE]
         /\ Start("dxvk::install", "DxvkInstalled", NoArgs)

UninstallDxvk ==
    IF app.busy THEN UNCHANGED vars
    ELSE /\ app' = [app EXCEPT !.busy = TRUE]
         /\ Start("dxvk::uninstall", "DxvkUninstalled", NoArgs)

\* command i has run to its end: its result, wrapped in its message, waits
\* for update
Finished(i, result) ==
    /\ worker' = Remove(worker, i)
    /\ inbox' = Append(inbox, [message |-> worker[i].message, result |-> result])

\* update_t7patch_conf up to the end of its read loop
WorkerRead ==
    /\ \E i \in DOMAIN worker :
        /\ worker[i].op = "update_t7patch_conf"
        /\ worker[i].phase = "spawned"
        /\ \E fault \in (IF fs.t7patch_conf.exists THEN {"none", "open"} ELSE {"none"}) :
            LET args == worker[i].args
            IN  IF ~fs.t7patch_conf.exists \/ fault = "open"
                THEN Finished(i, update_t7patch_conf(fs, args.new_name,
                                     args.new_password, args.friends_only,
                                     fault).result)
                ELSE /\ worker' = [worker EXCEPT
                            ![i].phase = "read",
                            ![i].lines = NewConfLines(fs.t7patch_conf.content,
                                             args.new_name, args.new_password,
                                             args.friends_only)]
                     /\ UNCHANGED inbox
    /\ UNCHANGED <<fs, call, ret, before, app, tally>>

\* update_t7patch_conf from File::create on
WorkerWrite ==
    /\ \E i \in DOMAIN worker :
        /\ worker[i].phase = "read"
        /\ \E fault \in {"none", "create"} :
            /\ fs' = IF fault = "create" THEN fs
                     ELSE [fs EXCEPT !.t7patch_conf =
                                         File(WriteLines(worker[i].lines, 1))]
            /\ Finished(i, IF fault = "create" THEN "IoError" ELSE "Ok")
    /\ UNCHANGED <<call, ret, before, app, tally>>

\* command i has run in one step and left this behind
Ran(i, out) ==
    /\ fs' = out.fs
    /\ Finished(i, out.result)
    /\ UNCHANGED <<call, ret, before, app, tally>>

WorkerInstallPatch ==
    /\ \E i \in DOMAIN worker, fetch \in Fetches :
        /\ worker[i].op = "install_t7_patch"
        /\ \E order \in ReadDirOrders(fs.lpc.files) :
            Ran(i, install_t7_patch(fs, fetch, order, {}))

WorkerUninstallPatch ==
    /\ \E i \in DOMAIN worker, faults \in SUBSET {"remove"} :
        /\ worker[i].op = "uninstall_t7_patch"
        /\ \E order \in ReadDirOrders(fs.lpc.files) :
            Ran(i, uninstall_t7_patch(fs, order, faults))

WorkerInstallDxvk ==
    /\ \E i \in DOMAIN worker, fetch \in Fetches :
        /\ worker[i].op = "dxvk::install"
        /\ Ran(i, dxvk_install(fs, fetch))

WorkerUninstallDxvk ==
    /\ \E i \in DOMAIN worker, faults \in SUBSET {"remove"} :
        /\ worker[i].op = "dxvk::uninstall"
        /\ Ran(i, dxvk_uninstall(fs, faults))

\* a slip in the completion handlers: busy left as it is
CompleteStaysBusy(message) ==
    /\ \E i \in DOMAIN inbox :
        /\ inbox[i].message = message
        /\ \E fault \in (IF fs.t7patch_conf.exists THEN {"none", "open"} ELSE {"none"}) :
            app' = refresh_state(app, fs, fault)
        /\ inbox' = Remove(inbox, i)
        /\ tally' = [tally EXCEPT
                        !.handled = @ + 1,
                        !.failed = @ + (IF inbox[i].result = "Ok" THEN 0 ELSE 1)]
    /\ UNCHANGED <<fs, call, ret, before, worker>>

\* the handler of a completion message: self.busy = false;
\* report_result(..); self.refresh_state()
Complete(message) ==
    /\ \E i \in DOMAIN inbox :
        /\ inbox[i].message = message
        /\ \E fault \in (IF fs.t7patch_conf.exists THEN {"none", "open"} ELSE {"none"}) :
            app' = refresh_state([app EXCEPT !.busy = FALSE], fs, fault)
        /\ inbox' = Remove(inbox, i)
        /\ tally' = [tally EXCEPT
                        !.handled = @ + 1,
                        !.failed = @ + (IF inbox[i].result = "Ok" THEN 0 ELSE 1)]
    /\ UNCHANGED <<fs, call, ret, before, worker>>

PatchInstalled ==
    /\ Complete("PatchInstalled")

PatchUninstalled ==
    /\ Complete("PatchUninstalled")

GamertagUpdated ==
    /\ Complete("GamertagUpdated")

PasswordUpdated ==
    /\ Complete("PasswordUpdated")

FriendsOnlyUpdated ==
    /\ Complete("FriendsOnlyUpdated")

DxvkInstalled ==
    /\ Complete("DxvkInstalled")

DxvkUninstalled ==
    /\ Complete("DxvkUninstalled")

\* the t7patch.conf the application finds at its start
AppConfs ==
    { NoFile,
      File(<<"p", "l", "a", "y", "e", "r", "n", "a", "m", "e", "=", "^", "1", "A", "l", "\n">>),
      File(<<"i", "s", "f", "r", "i", "e", "n", "d", "s", "o", "n", "l", "y", "=", "1", "\r", "\n", "p", "l", "a", "y", "e", "r", "n", "a", "m", "e", "=", "A", "l", "\r", "\n">>) }

\* the application as new() leaves it, on a game directory with or without
\* DXVK and with any of these t7patch.conf
InitApp ==
    /\ fs \in [game : {[n \in files |-> "installed"] :
                           files \in {{}, Range(DXVK_ASYNC_FILES) \cup {"dxvk.conf"}}},
               t7patch_conf : AppConfs,
               linux : {NoDir},
               zip : {FALSE},
               lpc : {NoLpcDir}]
    /\ app = refresh_state(NewApp, fs, "none")
    /\ worker = <<>>
    /\ inbox = <<>>
    /\ tally = NoTally
    /\ call = NoCall
    /\ ret = NoRet
    /\ before = NoSnapshot

\* the steps of the executor
Worker ==
    \/ WorkerRead
    \/ WorkerWrite
    \/ WorkerInstallPatch
    \/ WorkerUninstallPatch
    \/ WorkerInstallDxvk
    \/ WorkerUninstallDxvk

\* the delivery of a completion message to update
Completion ==
    \/ PatchInstalled
    \/ PatchUninstalled
    \/ GamertagUpdated
    \/ PasswordUpdated
    \/ FriendsOnlyUpdated
    \/ DxvkInstalled
    \/ DxvkUninstalled

NextApp ==
    \/ GamertagChanged
    \/ PasswordChanged
    \/ SaveGameDir
    \/ FriendsOnlyToggled
    \/ InstallPatch
    \/ UninstallPatch
    \/ UpdateGamertag
    \/ UpdatePassword
    \/ InstallDxvk
    \/ UninstallDxvk
    \/ Worker
    \/ Completion

\* a session of the application of up to MaxOperations operations
SpecApp == InitApp /\ [][NextApp]_vars

\* the same session on an executor that runs every command it was handed to
\* its end, under a runtime that hands every message to update
SpecAppLive ==
    InitApp /\ [][NextApp]_vars /\ WF_vars(Worker) /\ WF_vars(Completion)

\* ---------------------------------------------------- claims: the application

\* C15: at most one backend operation is in flight at any time; no message
\* that arrives while busy is true starts a worker operation; and
\* t7patch.conf is only ever rewritten while the command that rewrites it
\* is the one command running, so that no two read-modify-write sequences
\* interleave.
C15_OneInFlight ==
    /\ [](Len(worker) <= 1)
    /\ [][ /\ app.busy => Len(worker') <= Len(worker)
           /\ fs'.t7patch_conf # fs.t7patch_conf => Len(worker) = 1
         ]_vars

\* the friends-only toggle flipped while the update it started first has
\* read t7patch.conf and not yet rewritten it
C15_Witness ==
    /\ app.busy
    /\ Len(worker) = 1
    /\ worker[1].message = "FriendsOnlyUpdated"
    /\ worker[1].phase = "read"
    /\ worker[1].args.friends_only = Some(TRUE)
    /\ ~app.friends_only
    /\ ~check_t7_patch_status(fs, "none").status.friends_only.some

\* C16: every started operation delivers exactly one completion message,
\* whether it succeeded or failed; handling the message clears busy; busy
\* is true exactly from the start of an operation to the handling of its
\* completion message; and once the worker has returned, busy becomes
\* false again.
C16_Completion ==
    /\ [](tally.started = Len(worker) + Len(inbox) + tally.handled)
    /\ [](app.busy <=> (worker # <<>> \/ inbox # <<>>))
    /\ [][Len(inbox') < Len(inbox) => ~app'.busy]_vars
    /\ (inbox # <<>>) ~> ~app.busy

\* a failed operation and one after it both handled, the application idle
C16_Witness ==
    /\ tally.started = 2
    /\ tally.handled = 2
    /\ tally.failed = 1
    /\ ~app.busy
    /\ worker = <<>>
    /\ inbox = <<>>

\* the gamertag a t7patch.conf holds
StoredGamertag(f) == check_t7_patch_status(f, "none").status.gamertag

\* C18: the color code and the plain name of a player name with a color
\* prefix make up the stored gamertag, and an UpdateGamertag that writes
\* back the name refresh_state displayed leaves the stored gamertag, prefix
\* included, as it was.
C18_ColorCodeKept ==
    /\ [](LET status == check_t7_patch_status(fs, "none").status
          IN  status.color_code.some =>
                /\ Len(status.color_code.value) = 2
                /\ status.color_code.value \o status.plain_name.value
                       = status.gamertag.value)
    /\ [][ \A i \in DOMAIN worker :
              LET status == check_t7_patch_status(fs, "none").status
              IN  ( /\ worker[i].message = "GamertagUpdated"
                    /\ worker[i].phase = "read"
                    /\ status.color_code.some
                    /\ worker[i].args.new_name = status.plain_name
                    /\ fs' # fs )
                  => StoredGamertag(fs') = StoredGamertag(fs)
         ]_vars

\* ------------------------------------------------- rewriting a second time

\* the caller repeats its update_config_values call, with the rule list of
\* the call that has just returned Ok, on the file that call left
UpdateConfigValuesAgain ==
    /\ call.name = "update_config_values"
    /\ ret.result = "Ok"
    /\ Finish([name |-> "update_config_values_again", changes |-> call.changes],
              update_config_values(fs, call.changes, <<"done">>))

NextTwice ==
    \/ UpdateConfigValues
    \/ UpdateConfigValuesAgain
    \/ Return

\* update_config_values, once or twice in a row with one rule list, on every
\* initial config.ini
SpecTwice == InitRewrite /\ [][NextTwice]_vars

\* ------------------------------------------------------ claims: idempotence

RewroteAgain == call.name = "update_config_values_again" /\ ret.result = "Ok"

\* no rule's replacement line matches the pattern of another rule
NoCrossMatch(changes) ==
    \A k, m \in DOMAIN changes :
        k # m => ~is_match(changes[m][1], changes[k][2])

HasLine(f, line) == \E i \in DOMAIN lines(f.config_ini.content) :
                        lines(f.config_ini.content)[i] = line

\* C26: when set_config_value(K, V, C) returns Ok and logs "Set K to V",
\* and when apply_preset returns Ok for a preset with the non-toggle key K,
\* config.ini holds the line K = "V" // C afterwards, also when it had no
\* line of K before the call.
C26_SuccessMeansSet ==
    /\ (call.name = "set_config_value" /\ ret.result = "Ok")
          => HasLine(fs, FormatSetting(call.key, call.value, call.comment))
    /\ (call.name = "apply_preset" /\ ret.result = "Ok")
          => \A K \in DOMAIN Presets[call.preset_name] :
                K # ReduceStutter
                   => HasLine(fs, FormatSetting(K, Presets[call.preset_name][K][1],
                                                Presets[call.preset_name][K][2]))

\* -------------------------------------------------- the LPC backup in use

\* the files an LPC directory may hold before a call: two game files, a
\* backup, and a file that is neither
LpcNames ==
    { <<"core", "ff">>, <<"mp", "ff">>, <<"core", "ff", "bak">>,
      <<"notes", "txt">> }

\* the longest file name, in dot-separated parts, that a backup is still
\* taken beside: a restore gives X.ff.bak the name X.ff.ff, the next backup
\* makes X.ff.ff.bak of it, and so on
MaxNameParts == 4

Backupable(f) == \A n \in f.lpc.files : Len(n) < MaxNameParts

\* what such a file may hold; none of it is what the LPC archive holds
LpcContents == {"v1", "v2"}

\* any LPC directory of such files, or none; original keeps the files the
\* directory held at first, and no function touches it
InitLpc ==
    /\ \E files \in SUBSET LpcNames, exists \in BOOLEAN :
        \E content \in [files -> LpcContents] :
            /\ exists \/ files = {}
            /\ fs = [game |-> [n \in {} |-> ""],
                     t7patch_conf |-> NoFile,
                     linux |-> NoDir,
                     zip |-> FALSE,
                     lpc |-> IF exists THEN LpcDir(content) ELSE NoLpcDir,
                     original |-> content]
    /\ call = NoCall
    /\ ret = NoRet
    /\ before = NoSnapshot
    /\ NoApplication

BackupLpcFiles ==
    /\ call = NoCall
    /\ Backupable(fs)
    /\ \E faults \in SUBSET {"read_dir", "rename"},
          order \in ReadDirOrders(fs.lpc.files) :
        FinishUninstall([name |-> "backup_lpc_files", faults |-> faults,
                         order |-> order],
                        backup_lpc_files(fs, order, faults))

InstallLpcFiles ==
    /\ call = NoCall
    /\ Backupable(fs)
    /\ \E fetch \in Fetches, faults \in SUBSET {"read_dir", "rename", "copy"},
          order \in ReadDirOrders(fs.lpc.files) :
        FinishUninstall([name |-> "install_lpc_files", fetch |-> fetch,
                         faults |-> faults, order |-> order],
                        install_lpc_files(fs, fetch, order, faults))

NextLpc ==
    \/ BackupLpcFiles
    \/ RestoreLpcBackups
    \/ Return

\* backups and restores on every such LPC directory
SpecLpc == InitLpc /\ [][NextLpc]_vars

NextLpcInstall ==
    \/ InstallLpcFiles
    \/ BackupLpcFiles
    \/ Return

\* installs of the LPC files, any number of them, and backups
SpecLpcInstall == InitLpc /\ [][NextLpcInstall]_vars

\* -------------------------------------------------- claims: the LPC backup

Backup(path) == with_extension(path, <<"ff", "bak">>)

IsFF(path) == extension(path) = Some("ff")

IsBak(path) == extension(path) = Some("bak")

\* C23: on an LPC directory that holds no .bak file, backup_lpc_files
\* followed by restore_lpc_backups leaves every file X.ff under its name
\* with the content it had, and leaves no .bak file.
C23_BackupRestoreRoundTrip ==
    [][ ( /\ call.name = "backup_lpc_files"
          /\ ret.result = "Ok"
          /\ \A n \in before.lpc.files : ~IsBak(n)
          /\ call'.name = "restore_lpc_backups"
          /\ ret'.result = "Ok" )
        => /\ \A n \in before.lpc.files :
                 IsFF(n) => /\ n \in fs'.lpc.files
                            /\ fs'.lpc.content[n] = before.lpc.content[n]
           /\ \A n \in fs'.lpc.files : ~IsBak(n) ]_vars

\* C24: backup_lpc_files never overwrites a backup, so that whatever
\* installs of the LPC files have run, a backup the directory held at first
\* is as it was, the backup of a file X.ff that had none at first holds
\* what X.ff held at first, and a successful install leaves every such
\* file with a backup.
C24_BackupsKeepOriginals ==
    /\ \A n \in DOMAIN fs.original :
          /\ IsBak(n) => /\ n \in fs.lpc.files
                         /\ fs.lpc.content[n] = fs.original[n]
          /\ (IsFF(n) /\ Backup(n) \notin DOMAIN fs.original) =>
                /\ Backup(n) \in fs.lpc.files
                      => fs.lpc.content[Backup(n)] = fs.original[n]
                /\ (call.name = "install_lpc_files" /\ ret.result = "Ok")
                      => Backup(n) \in fs.lpc.files

\* a second install: it found the file of the first install beside the
\* backup the first install made, and the backup still holds the original
C24_Witness ==
    /\ call.name = "install_lpc_files"
    /\ ret.result = "Ok"
    /\ LET n == <<"core", "ff">>
       IN  /\ n \in DOMAIN fs.original
           /\ Backup(n) \notin DOMAIN fs.original
           /\ n \in before.lpc.files
           /\ before.lpc.content[n] = LpcArchive[n]
           /\ Backup(n) \in before.lpc.files
           /\ fs.lpc.content[n] = LpcArchive[n]
           /\ fs.lpc.content[Backup(n)] = fs.original[n]

\* ------------------------------------------------- the T7 patch installed

\* what the network gives install_t7_patch: both archives, none, or the
\* patch archive without the LPC archive
PatchFetches == Fetches \cup {"lpc_remote_failure"}

\* a game directory without the patch, with one file of an older patch or
\* with all of them, with or without a t7patch.conf of the player's, with
\* or without LPC files and an earlier download
InitInstall ==
    /\ \E old \in {{}, {"t7patch.dll"}, DOMAIN PatchArchive},
          conf \in {NoFile, File(<<"p", "l", "a", "y", "e", "r", "n", "a", "m", "e", "=", "^", "1", "A", "l", "\n">>), ArchiveConf},
          lpc \in {NoLpcDir, Named({<<"core", "ff">>}),
                   Named({<<"core", "ff">>, <<"core", "ff", "bak">>})},
          kept \in BOOLEAN :
        fs = [game |-> [n \in old |-> "old patch"],
              t7patch_conf |-> conf,
              linux |-> IF kept THEN Dir({"t7patch.dll"}) ELSE NoDir,
              zip |-> kept,
              lpc |-> lpc]
    /\ call = NoCall
    /\ ret = NoRet
    /\ before = NoSnapshot
    /\ NoApplication

InstallT7Patch ==
    /\ call = NoCall
    /\ Backupable(fs)
    /\ \E fetch \in PatchFetches, faults \in SUBSET {"read_dir", "rename", "copy"},
          order \in ReadDirOrders(fs.lpc.files) :
        FinishUninstall([name |-> "install_t7_patch", fetch |-> fetch,
                         faults |-> faults, order |-> order],
                        install_t7_patch(fs, fetch, order, faults))

NextInstall ==
    \/ InstallT7Patch
    \/ UninstallT7Patch
    \/ Return

\* the T7 patch installed and uninstalled, any number of times, under every
\* choice of failing steps
SpecInstall == InitInstall /\ [][NextInstall]_vars

\* ------------------------------------------------- claims: the T7 patch

\* C27: install_t7_patch leaves a t7patch.conf that the game directory
\* already holds as it is, whether the call succeeds or fails, and a call
\* that succeeds has copied every other file of the archive's linux/ tree
\* over its destination.
C27_ExistingConfKept ==
    call.name = "install_t7_patch" =>
        /\ before.t7patch_conf.exists => fs.t7patch_conf = before.t7patch_conf
        /\ ret.result = "Ok" =>
              \A n \in DOMAIN PatchArchive :
                 /\ n \in DOMAIN fs.game
                 /\ fs.game[n] = PatchArchive[n]

\* a successful install over an older patch and the player's t7patch.conf:
\* the files are replaced, the conf, which is not the archive's, is kept
C27_Witness ==
    /\ call.name = "install_t7_patch"
    /\ ret.result = "Ok"
    /\ before.t7patch_conf.exists
    /\ before.t7patch_conf # ArchiveConf
    /\ fs.t7patch_conf = before.t7patch_conf
    /\ "t7patch.dll" \in DOMAIN before.game
    /\ before.game["t7patch.dll"] # PatchArchive["t7patch.dll"]
    /\ fs.game["t7patch.dll"] = PatchArchive["t7patch.dll"]

====
